---- MODULE Spec2Model ----
(***************************************************************************)
(* The Task API (Phase-II/backend/src/services/task_service.py) and the    *)
(* event-driven workers behind it (Phase-II/backend/services):             *)
(*   - audit_logger : batched, idempotent append of task events            *)
(*   - notification : SSE connection registry, rate limiting, eviction     *)
(*   - reminder     : in-memory reminder heap, firing loop, persistence    *)
(*   - recurring_processor : scheduler and generator of task instances     *)
(* Each is a process of its own with its own wall clock; the workers       *)
(* share no state, so each has its own specification over the common       *)
(* variables (the other workers' variables stay at their initial value).   *)
(*                                                                         *)
(* Scheduling: every service runs one asyncio event loop.  A coroutine     *)
(* gives up control only at an await that really suspends (socket I/O,     *)
(* asyncio.sleep).  `async with asyncio.Lock()` on a lock nobody holds and *)
(* `await Queue.put()` on an unbounded queue do not suspend, and no lock   *)
(* holder ever suspends while holding a lock, so the code between two      *)
(* suspending awaits is one atomic step of the model.                      *)
(***************************************************************************)
EXTENDS Integers, Sequences, FiniteSets, TLC

VARIABLES
    \* ---- audit_logger ----
    buffer,        \* AuditLogStorage._buffer: events accepted, not yet taken
    flight,        \* batches taken out of the buffer by a flush() whose
                   \* database transaction has not finished yet
    task_events,   \* table task_events (primary key event_id)
    auditNow,      \* datetime.utcnow() of the audit process
    delivered,     \* history: deliveries made by the broker, per event_id
    inserted,      \* history: INSERT statements of committed flushes,
                   \* per event_id
    conflicted,    \* history: an INSERT of a committed flush met a stored
                   \* row of its event_id that differs from it
    auditPc,       \* "up", "stopping" (stop_background_task is inside its
                   \* last flush) or "down" (stop_background_task returned)
    dbFailed,      \* history: a database write of flush() has raised
    auditReply,    \* history: the last answer of a dispatch endpoint, and
                   \* whether handling that event failed downstream
    \* ---- reminder ----
    queue,             \* ReminderPriorityQueue._queue (heap contents)
    reminder_schedule, \* table reminder_schedule (unique per task_id)
    remNow,            \* datetime.utcnow() of the reminder process
    remUp,             \* the reminder process is up (lifespan entered)
    sched,             \* position of reminder_scheduler_loop
    published,         \* history: reminder.triggered events published
    intent,            \* history: trigger time asked for by the last
                       \* task.created of a task (0: none)
    rescheduled,       \* history: trigger time asked for by the last
                       \* task.updated of the task (0: none)
    cancelled,         \* history: tasks whose pending reminder was cancelled
                       \* before its trigger time
    remBudget,         \* history: task.created events handled and the
                       \* answer to the last one, restarts, whether a
                       \* snapshot saw a task twice, when the last startup
                       \* was
    \* ---- notification ----
    connections,   \* NotificationManager._connections: user_id -> set of
                   \* connections (the domain is the set of keys)
    conn,          \* the SSEConnection objects alive, by object identity,
                   \* each with the position of its event_generator
    notifNow,      \* time.time() / datetime.utcnow() of the notifier (ticks)
    hashable,      \* SSEConnection objects can be members of a set
    lastOpen,      \* history: outcome of the last GET /notifications/stream
    sentLog,       \* history: per connection, the times at which
                   \* send_notification enqueued on it, whether it was
                   \* ever skipped by the rate limit, and whether a
                   \* notification for its owner or a heartbeat pass ran
                   \* while it was alive and no longer registered
    timers,        \* the wake-up times of the asyncio.sleep of
                   \* heartbeat_loop and cleanup_stale_connections (on), or
                   \* sleeps of no particular length (off)
    lastUnreg,     \* history: the last call of unregister_connection made
                   \* from outside a stream and what it did
    notifBudget,   \* opens, deliveries, heartbeats, pulls, clock advances
                   \* and unregister calls left to the run
    \* ---- recurring_processor ----
    recStarted,    \* scheduler._scheduler_running
    recRuns,       \* the runs of process_recurring_tasks, by what started
                   \* them: where each one is
    recToday,      \* date.today() of the generator (day number)
    instances,     \* rows of table tasks that have a parent_recurring_task_id
    recRequests,   \* history: calls of create_task_instance, counted per
                   \* template and occurrence date
    recReport,     \* history: what the last finished run returned
    recBudget,     \* history: runs started so far
    \* ---- Task API ----
    tasks,         \* table tasks, by id
    apiConf,       \* settings.DAPR_ENABLED, and whether the Dapr SDK is there
    apiLast,       \* history: the last call of a TaskService operation and
                   \* what it returned
    \* ---- utils/recurrence ----
    occurrences,   \* get_all_occurrences of a monthly pattern: the dates of
                   \* the pattern, current_date, the next_date computed
                   \* last and the number of dates computed
    \* ---- reminder/priority_queue, the heap as an array ----
    firing,        \* process_due_reminders seen from its caller: the
                   \* triggered_count of the running tick, what the last
                   \* tick returned, and (history) the reminders whose
                   \* publish failed, in the running tick and in earlier ones
    pq,            \* a ReminderPriorityQueue: its _queue as heapq lays it
                   \* out, and the calls made on it, of which the last one
                   \* is kept, with its argument, its result and the _queue
                   \* it found
    \* ---- background loops and shutdown ----
    loops          \* the five background tasks: the await each is at (pc),
                   \* the loops whose last finished tick body raised, and
                   \* per service how far its stop operation has come

auditVars == <<buffer, flight, task_events, auditNow, delivered, inserted,
               conflicted, auditPc, dbFailed, auditReply>>

remVars == <<queue, reminder_schedule, remNow, remUp, sched, published,
             intent, rescheduled, cancelled, remBudget>>

notifVars == <<connections, conn, notifNow, hashable, lastOpen, sentLog,
               timers, lastUnreg, notifBudget>>

recVars == <<recStarted, recRuns, recToday, instances, recRequests,
             recReport, recBudget>>

apiVars == <<tasks, apiConf, apiLast>>

calVars == <<occurrences>>

heapVars == <<pq>>

firingVars == <<firing>>

loopVars == <<loops>>

vars == <<buffer, flight, task_events, auditNow, delivered, inserted,
          conflicted, auditPc, dbFailed, auditReply,
          queue, reminder_schedule, remNow, remUp, sched, published,
          intent, rescheduled, cancelled, remBudget,
          connections, conn, notifNow, hashable, lastOpen, sentLog,
          timers, lastUnreg, notifBudget,
          recStarted, recRuns, recToday, instances, recRequests,
          recReport, recBudget,
          tasks, apiConf, apiLast,
          occurrences, pq, firing, loops>>

\* what a step of one worker leaves alone: the state of the other workers
notAudit == <<remVars, notifVars, recVars, apiVars, calVars, heapVars, firingVars, loopVars>>
notReminder == <<auditVars, notifVars, recVars, apiVars, calVars, heapVars, firingVars, loopVars>>
notNotifier == <<auditVars, remVars, recVars, apiVars, calVars, heapVars, firingVars, loopVars>>
notGenerator == <<auditVars, remVars, notifVars, apiVars, calVars, heapVars, firingVars, loopVars>>
notApi == <<auditVars, remVars, notifVars, recVars, calVars, heapVars, firingVars, loopVars>>
notCalendar == <<auditVars, remVars, notifVars, recVars, apiVars, heapVars, firingVars, loopVars>>
\* a tick of the reminder engine that keeps its count
notFiring == <<auditVars, notifVars, recVars, apiVars, calVars, heapVars, loopVars>>
notHeap == <<auditVars, remVars, notifVars, recVars, apiVars, calVars, firingVars, loopVars>>
notLoops == <<auditVars, remVars, notifVars, recVars, apiVars, calVars, heapVars, firingVars>>

----------------------------------------------------------------------------
\* Bounds of the audit model
MaxDeliveries == 4      \* deliveries of envelopes by the broker
MaxAuditClock == 2      \* readings 0..MaxAuditClock of the audit clock
MaxInFlight   == 2      \* flush() calls that may be inside the DB write
MaxLimit      == 3      \* limit values 1..MaxLimit tried by the query
BATCH_SIZE    == 2      \* storage.py:29 sets 100; scaled so that the
                        \* size-triggered flush happens within MaxDeliveries

Min(a, b) == IF a <= b THEN a ELSE b

\* sum of f over the finite set S
RECURSIVE SumOver(_, _)
SumOver(f, S) ==
    IF S = {} THEN 0
    ELSE LET x == CHOOSE y \in S : TRUE IN f[x] + SumOver(f, S \ {x})

\* Envelopes the broker may deliver, any number of times and in any order.
\* occurred is the producer's stamp ("timestamp" of the envelope); e1 was
\* stamped later than e2 although both belong to task t1.
Envelopes ==
    { [event_id |-> "e1", event_type |-> "task.created", task_id |-> "t1",
       user_id |-> "u1", occurred |-> 2],
      [event_id |-> "e2", event_type |-> "task.updated", task_id |-> "t1",
       user_id |-> "u1", occurred |-> 1],
      [event_id |-> "e3", event_type |-> "task.created", task_id |-> "t2",
       user_id |-> "u1", occurred |-> 1] }

AuditTaskIds == {env.task_id : env \in Envelopes}
AuditEventIds == {env.event_id : env \in Envelopes}

\* The record write_event builds: the column "timestamp" is the time of
\* receipt (datetime.utcnow() in write_event); the producer's stamp only
\* survives inside the payload.
EventRecord(env, now) ==
    [event_id   |-> env.event_id,
     event_type |-> env.event_type,
     task_id    |-> env.task_id,
     user_id    |-> env.user_id,
     timestamp  |-> now,
     payload    |-> [timestamp |-> env.occurred]]

\* INSERT ... ON CONFLICT (event_id) DO NOTHING
InsertEventDropConflict(rows, ev) ==
    rows \cup {ev}

\* ... ON CONFLICT (event_id) DO UPDATE, what an upsert would do
InsertEventOverwrite(rows, ev) ==
    {r \in rows : r.event_id # ev.event_id} \cup {ev}

InsertEvent(rows, ev) ==
    IF \E r \in rows : r.event_id = ev.event_id THEN rows ELSE rows \cup {ev}

\* the for-loop of flush() over the batch, inside one transaction
RECURSIVE InsertBatch(_, _)
InsertBatch(rows, events) ==
    IF events = <<>> THEN rows
    ELSE InsertBatch(InsertEvent(rows, Head(events)), Tail(events))

\* Envelopes that lack a required field (the field is absent or empty)
MalformedEnvelopes ==
    { [event_id |-> "", event_type |-> "task.created", task_id |-> "t1",
       user_id |-> "u1", occurred |-> 1],
      [event_id |-> "e4", event_type |-> "task.created", task_id |-> "",
       user_id |-> "u1", occurred |-> 1],
      [event_id |-> "e5", event_type |-> "task.created", task_id |-> "t1",
       user_id |-> "", occurred |-> 1] }

\* The answer of a dispatch endpoint (main.py): 500 when the handler raised,
\* 200 with success otherwise.  failed records that handling the event
\* failed downstream.
DispatchReply(raised, failed) ==
    [status |-> IF raised THEN 500 ELSE 200, failed |-> failed]

\* the flush() calls of one caller that are inside their database write
FlightsBy(by) == {i \in 1..Len(flight) : flight[i].by = by}

\* a flush() that copies the buffer and does not clear it (no
\* self._buffer.clear())
FlushTake_keeping(by) ==
    /\ buffer # <<>>
    /\ Len(flight) < MaxInFlight
    /\ flight' = Append(flight, [by |-> by, events |-> buffer])
    /\ buffer' = buffer

\* flush(), first half: under the lock take the whole buffer as the batch.
\* An empty buffer returns 0 at once and starts nothing.
FlushTake(by) ==
    /\ buffer # <<>>
    /\ Len(flight) < MaxInFlight
    /\ flight' = Append(flight, [by |-> by, events |-> buffer])
    /\ buffer' = <<>>

\* write_event: append under the lock; when the buffer has reached
\* BATCH_SIZE the same call goes on into flush().
write_event(env) ==
    /\ auditPc = "up"
    /\ SumOver(delivered, AuditEventIds) < MaxDeliveries
    /\ delivered' = [delivered EXCEPT ![env.event_id] = @ + 1]
    /\ LET appended == Append(buffer, EventRecord(env, auditNow)) IN
       IF Len(appended) >= BATCH_SIZE
       THEN /\ Len(flight) < MaxInFlight
            /\ flight' = Append(flight, [by |-> "write_event", events |-> appended])
            /\ buffer' = <<>>
            /\ auditReply' = auditReply
       ELSE /\ buffer' = appended
            /\ flight' = flight
            /\ auditReply' = DispatchReply(FALSE, FALSE)
    /\ UNCHANGED <<task_events, auditNow, inserted, conflicted, auditPc, dbFailed>>
    /\ UNCHANGED notAudit

\* handle_task_*_event of the audit consumer and its dispatch endpoint:
\* every handler checks the three required fields, warns and returns when
\* one is missing, and passes the envelope to write_event otherwise.  The
\* endpoint answers when the handler has returned.
AuditHandleEvent(env) ==
    IF env.event_id = "" \/ env.task_id = "" \/ env.user_id = ""
    THEN /\ auditPc = "up"
         /\ auditReply' = DispatchReply(FALSE, FALSE)
         /\ UNCHANGED <<buffer, flight, task_events, auditNow, delivered,
                        inserted, conflicted, auditPc, dbFailed>>
         /\ UNCHANGED notAudit
    ELSE write_event(env)

\* flush_loop: after the 1-second sleep, flush().  The loop is one task: it
\* sleeps again only when its flush() has returned.
flush_loop_tick ==
    /\ auditPc = "up"
    /\ FlightsBy("flush_loop") = {}
    /\ FlushTake("flush_loop")
    /\ UNCHANGED <<task_events, auditNow, delivered, inserted, conflicted,
                   auditPc, dbFailed, auditReply>>
    /\ UNCHANGED notAudit

\* history: an INSERT of the batch meets a row of its event_id, stored
\* before or by an earlier INSERT of the batch, that differs from it
MeetsOtherRow(rows, events) ==
    \E k \in 1..Len(events) :
        \E r \in InsertBatch(rows, SubSeq(events, 1, k - 1)) :
            r.event_id = events[k].event_id /\ r # events[k]

CountInBatch(events, e) ==
    Cardinality({k \in 1..Len(events) : events[k].event_id = e})

RemoveAt(s, i) == SubSeq(s, 1, i - 1) \o SubSeq(s, i + 1, Len(s))

\* stop_background_task returns when its own flush() has returned
AfterFlush(by) == IF by = "stop_background_task" THEN "down" ELSE auditPc

\* flush() catches what the database raises and returns 0; write_event
\* returns True and the handler returns, so the endpoint of the event
\* whose write_event called flush() answers 200 either way.
ReplyAfterFlush(by, failed) ==
    IF by = "write_event" THEN DispatchReply(FALSE, failed) ELSE auditReply

\* flush(), second half: the transaction commits and every row of the batch
\* is inserted, or the write raises, 0 is returned and the batch is dropped.
FlushCommit(i) ==
    /\ i \in 1..Len(flight)
    /\ task_events' = InsertBatch(task_events, flight[i].events)
    /\ flight' = RemoveAt(flight, i)
    /\ inserted' = [e \in AuditEventIds |->
                      inserted[e] + CountInBatch(flight[i].events, e)]
    /\ conflicted' = (conflicted \/ MeetsOtherRow(task_events, flight[i].events))
    /\ auditPc' = AfterFlush(flight[i].by)
    /\ auditReply' = ReplyAfterFlush(flight[i].by, FALSE)
    /\ UNCHANGED <<buffer, auditNow, delivered, dbFailed>>
    /\ UNCHANGED notAudit

FlushFail(i) ==
    /\ i \in 1..Len(flight)
    /\ flight' = RemoveAt(flight, i)
    /\ auditPc' = AfterFlush(flight[i].by)
    /\ auditReply' = ReplyAfterFlush(flight[i].by, TRUE)
    /\ dbFailed' = TRUE
    /\ UNCHANGED <<buffer, task_events, auditNow, delivered, inserted, conflicted>>
    /\ UNCHANGED notAudit

\* stop_background_task, run by the lifespan when the server has finished
\* its requests: cancel the flush task and await it, then flush() what is
\* left in the buffer.  A flush() of the loop that is inside its database
\* write gets CancelledError there: the session is left without commit and
\* the batch, already taken out of the buffer, is gone; only when the COMMIT
\* had reached the server are its rows written (landed).
stop_background_task(landed) ==
    /\ auditPc = "up"
    /\ FlightsBy("write_event") = {}
    /\ LET cancelled_flush == FlightsBy("flush_loop")
           batch == IF cancelled_flush = {} \/ ~landed THEN <<>>
                    ELSE flight[CHOOSE i \in cancelled_flush : TRUE].events
       IN /\ task_events' = InsertBatch(task_events, batch)
          /\ inserted' = [e \in AuditEventIds |->
                            inserted[e] + CountInBatch(batch, e)]
          /\ conflicted' = (conflicted \/ MeetsOtherRow(task_events, batch))
    /\ IF Len(buffer) > 0
       THEN /\ flight' = <<[by |-> "stop_background_task", events |-> buffer]>>
            /\ buffer' = <<>>
            /\ auditPc' = "stopping"
       ELSE /\ flight' = <<>>
            /\ buffer' = buffer
            /\ auditPc' = "down"
    /\ UNCHANGED <<auditNow, delivered, dbFailed, auditReply>>
    /\ UNCHANGED notAudit

AuditClockTick ==
    /\ auditNow < MaxAuditClock
    /\ auditNow' = auditNow + 1
    /\ UNCHANGED <<buffer, flight, task_events, delivered, inserted, conflicted,
                   auditPc, dbFailed, auditReply>>
    /\ UNCHANGED notAudit

\* get_task_events: SELECT ... WHERE task_id = :task_id ORDER BY timestamp
\* ASC LIMIT :limit.  Rows with equal timestamp come in any order, so the
\* operator gives every result the query may return.
TaskRows(task_id) == {r \in task_events : r.task_id = task_id}

get_task_events(task_id, limit) ==
    LET rows == TaskRows(task_id)
        k    == Min(limit, Cardinality(rows))
    IN { s \in [1..k -> rows] :
           /\ \A i, j \in 1..k : i < j => s[i] # s[j]
           /\ \A i, j \in 1..k : i < j => s[i].timestamp <= s[j].timestamp
           /\ \A r \in rows : (\A i \in 1..k : s[i] # r)
                               => \A i \in 1..k : s[i].timestamp <= r.timestamp }

InitAudit ==
    /\ buffer = <<>>
    /\ flight = <<>>
    /\ task_events = {}
    /\ auditNow = 0
    /\ delivered = [e \in AuditEventIds |-> 0]
    /\ inserted = [e \in AuditEventIds |-> 0]
    /\ conflicted = FALSE
    /\ auditPc = "up"
    /\ dbFailed = FALSE
    /\ auditReply = [status |-> 0, failed |-> FALSE]

NextAudit ==
    \/ \E env \in Envelopes \cup MalformedEnvelopes : AuditHandleEvent(env)
    \/ flush_loop_tick
    \/ \E i \in 1..MaxInFlight : FlushCommit(i)
    \/ \E i \in 1..MaxInFlight : FlushFail(i)
    \/ \E landed \in BOOLEAN : stop_background_task(landed)
    \/ AuditClockTick

\* The buffer and its flushes alone: well-formed deliveries, the flush tick,
\* the database answering each flush() and the teardown.
NextFlush ==
    \/ \E env \in Envelopes : write_event(env)
    \/ flush_loop_tick
    \/ \E i \in 1..MaxInFlight : FlushCommit(i)
    \/ \E i \in 1..MaxInFlight : FlushFail(i)
    \/ \E landed \in BOOLEAN : stop_background_task(landed)

----------------------------------------------------------------------------
\* Reminder engine (services/reminder)

\* Bounds of the reminder model.  One unit of the reminder clock is one hour.
MaxRemClock == 2      \* readings 0..MaxRemClock of the reminder clock
MaxCreated  == 2      \* task.created events handled
MaxRestarts == 1      \* restarts of the reminder process

RemTaskIds == {"t1", "t2"}


\* task.due_date of a task.created event: absent, not ISO-8601, or an
\* ISO-8601 time, written without offset ("2025-06-01T12:00:00", what
\* datetime.isoformat() of the Task API gives) or with the RFC 3339 "Z".
DueDateStrings ==
    { [kind |-> "missing", at |-> 0, z |-> FALSE],
      [kind |-> "invalid", at |-> 0, z |-> FALSE] }
    \cup { [kind |-> "iso", at |-> 3, z |-> zz] : zz \in BOOLEAN }

\* task.reminder_offset of a task.created event ("" is absent)
OffsetStrings == {"", "tomorrow", "1 hour", "2 HR"}

\* data.changes of a task.updated event: the names of the changed fields
\* and the new values of due_date and reminder_offset ("" is None)
UpdateChanges ==
    { [changed |-> {"title"},
       due_date |-> [kind |-> "missing", at |-> 0, z |-> FALSE],
       reminder_offset |-> ""],
      [changed |-> {"reminder_offset"},
       due_date |-> [kind |-> "missing", at |-> 0, z |-> FALSE],
       reminder_offset |-> ""],
      [changed |-> {"due_date", "reminder_offset"},
       due_date |-> [kind |-> "iso", at |-> 3, z |-> FALSE],
       reminder_offset |-> "1 hour"] }

\* The task.created events delivered to the reminder engine: every task,
\* due date and offset for owner u1, and one event that lacks the owner
\* (user_id "")
CreatedEvents ==
    { [task_id |-> t, user_id |-> "u1", due_date |-> due, reminder_offset |-> offset] :
        t \in RemTaskIds, due \in DueDateStrings, offset \in OffsetStrings }
    \cup { [task_id |-> "t1", user_id |-> "",
            due_date |-> [kind |-> "iso", at |-> 3, z |-> FALSE],
            reminder_offset |-> "1 hour"] }

\* parse_reminder_offset: strip, lower-case, match <digits> <unit>; the
\* result is the timedelta in hours, 0 standing for None.
parse_reminder_offset(offset_str) ==
    CASE offset_str = "1 hour"   -> 1
      [] offset_str = "2 HR"     -> 2
      [] offset_str = "tomorrow" -> 0
      [] OTHER                   -> 0

\* datetime.fromisoformat(due_date_str.replace('Z', '+00:00')): a string
\* with Z gives an offset-aware datetime, one without a naive datetime.
fromisoformat(due) == [t |-> due.at, aware |-> due.z]

\* calculate_trigger_time with `trigger_at < datetime.utcnow()`
calculate_trigger_time_not_before(due_date, reminder_offset, now) ==
    LET offset_delta == parse_reminder_offset(reminder_offset)
        trigger_at   == due_date.t - offset_delta
    IN IF offset_delta = 0 THEN [res |-> "None", t |-> 0]
       ELSE IF due_date.aware THEN [res |-> "TypeError", t |-> 0]
       ELSE IF trigger_at < now THEN [res |-> "None", t |-> 0]
       ELSE [res |-> "ok", t |-> trigger_at]

\* calculate_trigger_time: None when the offset does not parse or the
\* trigger is not in the future.  trigger_at <= datetime.utcnow() compares
\* with a naive datetime and raises TypeError when trigger_at is aware.
calculate_trigger_time(due_date, reminder_offset, now) ==
    LET offset_delta == parse_reminder_offset(reminder_offset)
        trigger_at   == due_date.t - offset_delta
    IN IF offset_delta = 0 THEN [res |-> "None", t |-> 0]
       ELSE IF due_date.aware THEN [res |-> "TypeError", t |-> 0]
       ELSE IF trigger_at <= now THEN [res |-> "None", t |-> 0]
       ELSE [res |-> "ok", t |-> trigger_at]

ReminderItem(trigger_at, task_id, user_id, reminder_type) ==
    [trigger_at |-> trigger_at, task_id |-> task_id, user_id |-> user_id,
     reminder_type |-> reminder_type]

NoItem == ReminderItem(0, "", "", "")

\* The heap is kept as the list of its items in ascending trigger_at; which
\* of several items with the least trigger_at sits at index 0 of the Python
\* heap depends on the layout, so peek/pop may give any of them.
heappush(q, r) ==
    LET n == Cardinality({i \in 1..Len(q) : q[i].trigger_at <= r.trigger_at})
    IN SubSeq(q, 1, n) \o <<r>> \o SubSeq(q, n + 1, Len(q))

HeapTop(q) == {i \in 1..Len(q) : q[i].trigger_at = q[1].trigger_at}

\* ReminderPriorityQueue.remove: drop every item of the task, heapify
remove(q, task_id) ==
    LET Keep(r) == r.task_id # task_id IN SelectSeq(q, Keep)

EntriesOf(q, task_id) == {i \in 1..Len(q) : q[i].task_id = task_id}

\* history: a reminder of the task is pending and its trigger time has not
\* come yet
PendingBeforeTrigger(task_id) ==
    /\ EntriesOf(queue, task_id) # {}
    /\ \A i \in EntriesOf(queue, task_id) : remNow < queue[i].trigger_at
    /\ ~(sched.pc = "publish" /\ sched.item.task_id = task_id)

\* history: the trigger time a task.created asks for (0: none)
RequestedTrigger(due, offset, now) ==
    IF due.kind = "iso" /\ parse_reminder_offset(offset) # 0
       /\ due.at - parse_reminder_offset(offset) > now
    THEN due.at - parse_reminder_offset(offset) ELSE 0

\* POST /dapr/subscribe/task-created: 200 with success true when
\* handle_task_created_event returns, 500 when it raises
handle_task_created(raised) == IF raised THEN 500 ELSE 200

\* handle_task_created_event.  Its body is one try whose `except Exception`
\* logs and returns, so the TypeError of calculate_trigger_time does not
\* leave it.
handle_task_created_event(task_id, user_id, due, offset) ==
    /\ remUp
    /\ remBudget.created < MaxCreated
    /\ remBudget' = [remBudget EXCEPT !.created = @ + 1,
                                      !.last_reply = handle_task_created(FALSE)]
    /\ IF user_id = "" THEN UNCHANGED <<intent, rescheduled, cancelled>>
       ELSE /\ intent' = [intent EXCEPT ![task_id] =
                            RequestedTrigger(due, offset, remNow)]
            /\ rescheduled' = [rescheduled EXCEPT ![task_id] = 0]
            /\ cancelled' = cancelled \ {task_id}
    /\ IF due.kind = "missing" \/ offset = "" THEN queue' = queue
       ELSE IF due.kind = "invalid" THEN queue' = queue
       ELSE LET trigger == calculate_trigger_time(fromisoformat(due), offset, remNow)
            IN IF trigger.res # "ok" THEN queue' = queue
               ELSE queue' = heappush(queue,
                        ReminderItem(trigger.t, task_id, user_id, "due_date_reminder"))
    /\ UNCHANGED <<reminder_schedule, remNow, remUp, sched, published>>
    /\ UNCHANGED notReminder

\* handle_task_updated_event: when due_date or reminder_offset is among the
\* changes the reminder of the task is removed; nothing is inserted again.
handle_task_updated_event(task_id, changes) ==
    /\ remUp
    /\ IF "due_date" \in changes.changed \/ "reminder_offset" \in changes.changed
       THEN /\ queue' = remove(queue, task_id)
            /\ intent' = [intent EXCEPT ![task_id] = 0]
            /\ rescheduled' = [rescheduled EXCEPT ![task_id] =
                     RequestedTrigger(changes.due_date, changes.reminder_offset,
                                      remNow)]
       ELSE UNCHANGED <<queue, intent, rescheduled>>
    /\ UNCHANGED <<reminder_schedule, remNow, remUp, sched, published,
                   cancelled, remBudget>>
    /\ UNCHANGED notReminder

\* handle_task_deleted_event and handle_task_completed_event
handle_task_deleted_event(task_id) ==
    /\ remUp
    /\ queue' = remove(queue, task_id)
    /\ intent' = [intent EXCEPT ![task_id] = 0]
    /\ rescheduled' = [rescheduled EXCEPT ![task_id] = 0]
    /\ cancelled' = IF PendingBeforeTrigger(task_id)
                    THEN cancelled \cup {task_id} ELSE cancelled
    /\ UNCHANGED <<reminder_schedule, remNow, remUp, sched, published, remBudget>>
    /\ UNCHANGED notReminder

handle_task_completed_event(task_id) ==
    handle_task_deleted_event(task_id)

\* process_due_reminders, `if reminder.trigger_at > now: break`
IsDueLookahead(reminder, now) == reminder.trigger_at <= now + 1

IsDue(reminder, now) == ~(reminder.trigger_at > now)

\* One pass of the while loop of process_due_reminders up to the HTTP call
\* of the publisher: peek, compare with the now taken at the start of the
\* tick, pop.  The event's timestamp is read right after the pop.
LoopPass(now) ==
    IF queue = <<>> \/ ~IsDue(queue[1], now)
    THEN /\ queue' = queue
         /\ sched' = [pc |-> "sleep", now |-> 0, at |-> 0, item |-> NoItem]
    ELSE \E i \in HeapTop(queue) :
         /\ queue' = RemoveAt(queue, i)
         /\ sched' = [pc |-> "publish", now |-> now, at |-> remNow, item |-> queue[i]]

\* reminder_scheduler_loop wakes up: now = datetime.utcnow(), first pass
FirstPass ==
    /\ remUp
    /\ sched.pc = "sleep"
    /\ LoopPass(remNow)
    /\ UNCHANGED <<reminder_schedule, remNow, remUp, published,
                   intent, rescheduled,
                   cancelled, remBudget>>

process_due_reminders ==
    /\ FirstPass
    /\ UNCHANGED notReminder

\* publish_reminder_triggered_event returns: True after the POST succeeded,
\* False after any error; the loop goes on with the next pass.
\* a publisher's return after which a reminder that was not published goes
\* back into the heap and waits for the next tick
Published_or_requeued(success) ==
    /\ remUp
    /\ sched.pc = "publish"
    /\ published' = IF success
                    THEN Append(published,
                                [task_id |-> sched.item.task_id,
                                 trigger_at |-> sched.item.trigger_at,
                                 reminder_type |-> sched.item.reminder_type,
                                 at |-> sched.at, tick_now |-> sched.now])
                    ELSE published
    /\ IF success THEN LoopPass(sched.now)
       ELSE /\ queue' = heappush(queue, sched.item)
            /\ sched' = [pc |-> "sleep", now |-> 0, at |-> 0, item |-> NoItem]
    /\ UNCHANGED <<reminder_schedule, remNow, remUp,
                   intent, rescheduled, cancelled, remBudget>>

Published(success) ==
    /\ remUp
    /\ sched.pc = "publish"
    /\ published' = IF success
                    THEN Append(published,
                                [task_id |-> sched.item.task_id,
                                 trigger_at |-> sched.item.trigger_at,
                                 reminder_type |-> sched.item.reminder_type,
                                 at |-> sched.at, tick_now |-> sched.now])
                    ELSE published
    /\ LoopPass(sched.now)
    /\ UNCHANGED <<reminder_schedule, remNow, remUp,
                   intent, rescheduled, cancelled, remBudget>>

publish_returns(success) ==
    /\ Published(success)
    /\ UNCHANGED notReminder

\* The same two steps with the tick's own count.  triggered_count is a
\* local of process_due_reminders and its return value is not used by
\* reminder_scheduler_loop, so the steps above leave it out.

\* history: what identifies a reminder whose publish failed
DropKey(item) == [task_id |-> item.task_id, trigger_at |-> item.trigger_at]

\* the loop goes on (sched' is inside a publish) or breaks and the tick
\* returns triggered_count
\* history: first is the number of events published before the tick began
Counted(triggered_count, failed, first) ==
    IF sched'.pc = "publish"
    THEN [firing EXCEPT !.triggered_count = triggered_count,
                        !.failed = failed,
                        !.first = first]
    ELSE [triggered_count |-> 0,
          returned |-> triggered_count,
          failed |-> {},
          first |-> 0,
          dropped |-> firing.dropped \cup failed]

\* process_due_reminders: triggered_count = 0, first pass of the loop
process_due_reminders_counted ==
    /\ FirstPass
    /\ firing' = Counted(0, {}, Len(published))
    /\ UNCHANGED notFiring

\* `if success: triggered_count += 1`, else a warning; next pass
publish_returns_counted(success) ==
    /\ Published(success)
    /\ firing' = Counted(IF success THEN firing.triggered_count + 1
                         ELSE firing.triggered_count,
                         IF success THEN firing.failed
                         ELSE firing.failed \cup {DropKey(sched.item)},
                         firing.first)
    /\ UNCHANGED notFiring

InitFiring ==
    firing = [triggered_count |-> 0, returned |-> 0, failed |-> {},
              first |-> 0, dropped |-> {}]

\* INSERT ... ON CONFLICT (task_id) DO UPDATE SET trigger_at, reminder_type
UpsertReminderNoConflict(rows, r) ==
    rows \cup {[task_id |-> r.task_id, user_id |-> r.user_id,
                trigger_at |-> r.trigger_at, reminder_type |-> r.reminder_type,
                status |-> "pending"]}

UpsertReminder(rows, r) ==
    IF \E row \in rows : row.task_id = r.task_id
    THEN { IF row.task_id = r.task_id
           THEN [row EXCEPT !.trigger_at = r.trigger_at,
                            !.reminder_type = r.reminder_type]
           ELSE row : row \in rows }
    ELSE rows \cup {[task_id |-> r.task_id, user_id |-> r.user_id,
                     trigger_at |-> r.trigger_at, reminder_type |-> r.reminder_type,
                     status |-> "pending"]}

RECURSIVE UpsertAll(_, _)
UpsertAll(rows, reminders) ==
    IF reminders = <<>> THEN rows
    ELSE UpsertAll(UpsertReminder(rows, Head(reminders)), Tail(reminders))

\* save_reminders_to_db: nothing at all when the heap is empty; otherwise
\* one transaction deletes the pending rows and upserts every heap item;
\* an error rolls the transaction back.
save_reminders_to_db(q, rows, db_ok) ==
    IF q = <<>> THEN rows
    ELSE IF ~db_ok THEN rows
    ELSE UpsertAll({row \in rows : row.status # "pending"}, q)

SeesTaskTwice(q) ==
    \E i, j \in 1..Len(q) :
        q[i].task_id = q[j].task_id /\ q[i].trigger_at # q[j].trigger_at

\* persistence_loop after its sleep
persistence_tick(db_ok) ==
    /\ remUp
    /\ reminder_schedule' = save_reminders_to_db(queue, reminder_schedule, db_ok)
    /\ remBudget' = [remBudget EXCEPT !.saw_dup = db_ok /\ SeesTaskTwice(queue)]
    /\ UNCHANGED <<queue, remNow, remUp, sched, published,
                   intent, rescheduled, cancelled>>
    /\ UNCHANGED notReminder

\* load_reminders_from_db: the pending rows with trigger_at > NOW(), in
\* ascending trigger_at, are added to the (empty) heap.
RECURSIVE LoadRows(_, _)
LoadRows(q, rows) ==
    IF rows = {} THEN q
    ELSE LET row == CHOOSE r \in rows : TRUE
         IN LoadRows(heappush(q, ReminderItem(row.trigger_at, row.task_id,
                                              row.user_id, row.reminder_type)),
                     rows \ {row})

load_reminders_from_db_all(rows, now, db_ok) ==
    IF ~db_ok THEN <<>>
    ELSE LoadRows(<<>>, {row \in rows : row.status = "pending"})

load_reminders_from_db(rows, now, db_ok) ==
    IF ~db_ok THEN <<>>
    ELSE LoadRows(<<>>, {row \in rows : row.status = "pending" /\ row.trigger_at > now})

\* lifespan, shutdown: the scheduler is stopped, the heap is saved, and the
\* process ends, which loses the heap.
Shutdown(db_ok) ==
    /\ remUp
    /\ sched.pc = "sleep"
    /\ reminder_schedule' = save_reminders_to_db(queue, reminder_schedule, db_ok)
    /\ remUp' = FALSE
    /\ queue' = <<>>
    /\ intent' = [t \in RemTaskIds |-> 0]
    /\ rescheduled' = [t \in RemTaskIds |-> 0]
    /\ remBudget' = [remBudget EXCEPT !.saw_dup = db_ok /\ SeesTaskTwice(queue)]
    /\ UNCHANGED <<remNow, sched, published, cancelled>>
    /\ UNCHANGED notReminder

\* the process dies without shutdown
Crash ==
    /\ remUp
    /\ remUp' = FALSE
    /\ queue' = <<>>
    /\ sched' = [pc |-> "sleep", now |-> 0, at |-> 0, item |-> NoItem]
    /\ intent' = [t \in RemTaskIds |-> 0]
    /\ rescheduled' = [t \in RemTaskIds |-> 0]
    /\ UNCHANGED <<reminder_schedule, remNow, published, cancelled, remBudget>>
    /\ UNCHANGED notReminder

\* lifespan, startup: load the heap, start the scheduler
Startup(db_ok) ==
    /\ ~remUp
    /\ remBudget.restarts < MaxRestarts
    /\ remBudget' = [remBudget EXCEPT !.restarts = @ + 1,
                                      !.started_at = remNow]
    /\ queue' = load_reminders_from_db(reminder_schedule, remNow, db_ok)
    /\ remUp' = TRUE
    /\ UNCHANGED <<reminder_schedule, remNow, sched, published,
                   intent, rescheduled, cancelled>>
    /\ UNCHANGED notReminder

RemClockTick ==
    /\ remNow < MaxRemClock
    /\ remNow' = remNow + 1
    /\ UNCHANGED <<queue, reminder_schedule, remUp, sched, published,
                   intent, rescheduled,
                   cancelled, remBudget>>
    /\ UNCHANGED notReminder

InitReminder ==
    /\ queue = <<>>
    /\ reminder_schedule = {}
    /\ remNow = 0
    /\ remUp = TRUE
    /\ sched = [pc |-> "sleep", now |-> 0, at |-> 0, item |-> NoItem]
    /\ published = <<>>
    /\ intent = [t \in RemTaskIds |-> 0]
    /\ rescheduled = [t \in RemTaskIds |-> 0]
    /\ cancelled = {}
    /\ remBudget = [created |-> 0, restarts |-> 0, saw_dup |-> FALSE,
                    started_at |-> 0, last_reply |-> 0]

NextReminder ==
    \/ \E ev \in CreatedEvents :
          handle_task_created_event(ev.task_id, ev.user_id, ev.due_date,
                                    ev.reminder_offset)
    \/ \E t \in RemTaskIds, changes \in UpdateChanges :
          handle_task_updated_event(t, changes)
    \/ \E t \in RemTaskIds : handle_task_deleted_event(t)
    \/ \E t \in RemTaskIds : handle_task_completed_event(t)
    \/ process_due_reminders
    \/ \E success \in BOOLEAN : publish_returns(success)
    \/ \E db_ok \in BOOLEAN : persistence_tick(db_ok)
    \/ \E db_ok \in BOOLEAN : Shutdown(db_ok)
    \/ Crash
    \/ \E db_ok \in BOOLEAN : Startup(db_ok)
    \/ RemClockTick

\* the event consumer alone (event_consumer.py): the four handlers and the
\* clock, with no scheduler pass, snapshot or restart
NextEventConsumer ==
    \/ \E ev \in CreatedEvents :
          handle_task_created_event(ev.task_id, ev.user_id, ev.due_date,
                                    ev.reminder_offset)
    \/ \E t \in RemTaskIds, changes \in UpdateChanges :
          handle_task_updated_event(t, changes)
    \/ \E t \in RemTaskIds : handle_task_deleted_event(t)
    \/ \E t \in RemTaskIds : handle_task_completed_event(t)
    \/ RemClockTick

\* the firing loop and the events that put reminders into the heap, with
\* no snapshot and no restart
NextFiring ==
    \/ \E ev \in CreatedEvents :
          handle_task_created_event(ev.task_id, ev.user_id, ev.due_date,
                                    ev.reminder_offset)
    \/ \E t \in RemTaskIds, changes \in UpdateChanges :
          handle_task_updated_event(t, changes)
    \/ \E t \in RemTaskIds : handle_task_deleted_event(t)
    \/ process_due_reminders_counted
    \/ \E success \in BOOLEAN : publish_returns_counted(success)
    \/ RemClockTick

\* Claims about the reminder engine

PubCount(pubs, task_id) ==
    Cardinality({i \in 1..Len(pubs) : pubs[i].task_id = task_id})

\* C4: every published reminder.triggered has trigger-at <= the wall-clock
\* time of its firing, and so has the reminder whose publish is under way.
C4_FiredNotEarly ==
    /\ \A i \in 1..Len(published) : published[i].trigger_at <= published[i].at
    /\ sched.pc = "publish" => sched.item.trigger_at <= sched.at

\* a reminder was fired in a tick during which the clock moved on and
\* another one was fired exactly at its trigger time
C4_Witness ==
    /\ \E i \in 1..Len(published) : published[i].at > published[i].tick_now
    /\ \E i \in 1..Len(published) : published[i].at = published[i].trigger_at

\* C5 as claimed: once task.deleted/task.completed was handled before the
\* trigger time of the task's pending reminder, no step publishes a
\* reminder.triggered for that task.
C5_NoFireAfterCancel ==
    [][\A t \in cancelled : PubCount(published', t) = PubCount(published, t)]_vars

\* C6 as claimed: a task.created asking for a trigger in the future keeps an
\* entry with that trigger time and type due_date_reminder in the heap for
\* as long as now < trigger-at.
C6_ScheduledUntilDue ==
    \A t \in RemTaskIds :
        (remUp /\ intent[t] # 0 /\ remNow < intent[t]) =>
            \E i \in 1..Len(queue) :
                /\ queue[i].task_id = t
                /\ queue[i].trigger_at = intent[t]
                /\ queue[i].reminder_type = "due_date_reminder"

\* C13 as claimed: after a task.updated that changes due_date and
\* reminder_offset to values giving a trigger time in the future, the heap
\* holds an entry of the task with the new trigger time for as long as the
\* trigger time has not come.
C13_RescheduledStaysPending ==
    \A t \in RemTaskIds :
        (remUp /\ rescheduled[t] # 0 /\ remNow < rescheduled[t]) =>
            \E i \in 1..Len(queue) :
                /\ queue[i].task_id = t
                /\ queue[i].trigger_at = rescheduled[t]

\* C19 as claimed, for the reminder engine: an event that lacks the owner
\* is dropped and leaves the heap as it was, so no heap entry and no
\* reminder about to be published is without owner.
C19_MalformedDropped ==
    /\ \A i \in 1..Len(queue) : queue[i].user_id # ""
    /\ sched.pc = "publish" => sched.item.user_id # ""

\* the rows of reminder_schedule a startup at time now has to load
RowsToLoad(rows, now) ==
    {ReminderItem(row.trigger_at, row.task_id, row.user_id, row.reminder_type) :
        row \in {r \in rows : r.status = "pending" /\ r.trigger_at > now}}

\* C26: a startup whose load succeeds leaves in the heap exactly the pending
\* rows with trigger-at later than the startup time, each once; and no
\* reminder fired after a startup has a trigger-at that had passed by the
\* time of that startup.
C26_LoadsOnlyFuture ==
    [][/\ Startup(TRUE) =>
              /\ {queue'[i] : i \in 1..Len(queue')}
                     = RowsToLoad(reminder_schedule, remNow)
              /\ Len(queue') = Cardinality(RowsToLoad(reminder_schedule, remNow))
       /\ (remBudget.restarts > 0 /\ Len(published') > Len(published)) =>
              published'[Len(published')].trigger_at > remBudget.started_at]_vars

\* after a restart at time 1 the row of t1 (trigger-at 1) is still in the
\* table and was not loaded, t2 (trigger-at 2) was loaded and has fired, and
\* t1 has not
C26_Witness ==
    /\ remBudget.restarts = 1 /\ remBudget.started_at = 1
    /\ \E row \in reminder_schedule : row.task_id = "t1" /\ row.trigger_at = 1
    /\ \E i \in 1..Len(published) :
          published[i].task_id = "t2" /\ published[i].at > remBudget.started_at
    /\ PubCount(published, "t1") = 0

\* the reminder offset of the event does not parse, or due - offset is
\* not after now
NoReminderCase(due, offset, now) ==
    \/ parse_reminder_offset(offset) = 0
    \/ due.kind = "iso" /\ due.at - parse_reminder_offset(offset) <= now

\* number of entries of the heap equal to r
HeapCount(q, r) == Cardinality({i \in 1..Len(q) : q[i] = r})

\* C30: a task.created whose offset does not parse, or whose trigger is not
\* after now, leaves the heap as it is and is answered 200; and every entry
\* a step adds to the heap has trigger-at > now.
C30_NoReminderNoError ==
    [][/\ remBudget'.created # remBudget.created =>
              \A ev \in CreatedEvents :
                  (/\ NoReminderCase(ev.due_date, ev.reminder_offset, remNow)
                   /\ handle_task_created_event(ev.task_id, ev.user_id,
                                                ev.due_date, ev.reminder_offset))
                      => (queue' = queue /\ remBudget'.last_reply = 200)
       /\ \A i \in 1..Len(queue') :
              HeapCount(queue', queue'[i]) > HeapCount(queue, queue'[i])
                  => queue'[i].trigger_at > remNow]_vars

\* at time 1 two task.created have been handled and answered 200; the heap
\* holds the reminder of t1, due in the future, and none of t2, and nothing
\* was removed, fired or reloaded
C30_Witness ==
    /\ remBudget.created = 2 /\ remBudget.last_reply = 200
    /\ remBudget.restarts = 0 /\ remUp
    /\ remNow = 1
    /\ Len(queue) = 1 /\ queue[1].task_id = "t1" /\ queue[1].trigger_at = 2
    /\ intent["t1"] = 2 /\ intent["t2"] = 0
    /\ published = <<>> /\ cancelled = {} /\ sched.pc = "sleep"

\* the pending rows of the table and the items of the heap, as reminders
PendingReminders(rows) ==
    {ReminderItem(row.trigger_at, row.task_id, row.user_id, row.reminder_type) :
        row \in {r \in rows : r.status = "pending"}}

HeapReminders(q) == {q[i] : i \in 1..Len(q)}

\* C27 as claimed: after a persistence snapshot that succeeds, the pending
\* rows of reminder_schedule are the reminders the heap held at the time of
\* the snapshot.
C27_SnapshotEqualsHeap ==
    [][persistence_tick(TRUE) =>
          PendingReminders(reminder_schedule') = HeapReminders(queue)]_vars

\* C7: at most one pending row per task_id in reminder_schedule.
C7_OnePendingRowPerTask ==
    \A t \in RemTaskIds :
        Cardinality({row \in reminder_schedule :
                        row.task_id = t /\ row.status = "pending"}) <= 1

\* the last snapshot was written from a heap holding t1 twice (with two
\* trigger times) and left one row for t1
C7_Witness ==
    /\ remBudget.saw_dup
    /\ Cardinality({row \in reminder_schedule : row.task_id = "t1"}) = 1
    /\ Cardinality({q \in {queue[i] : i \in 1..Len(queue)} : q.task_id = "t1"}) = 2

\* C8 as claimed: at most one heap entry per task_id.
C8_OneHeapEntryPerTask ==
    \A t \in RemTaskIds : Cardinality(EntriesOf(queue, t)) <= 1
----------------------------------------------------------------------------
\* Notifier (services/notification)

\* Bounds of the notifier model.  The notifier clock counts ticks of
\* 1/TicksPerSecond seconds.
TicksPerSecond   == 2     \* resolution of the notifier clock
MaxOpens         == 4     \* GET /notifications/stream requests
MaxDelivers      == 12    \* send_notification calls
MaxHeartbeats    == 1     \* passes of heartbeat_loop
MaxPulls         == 1     \* frames taken from a queue by a stream
MaxNotifTicks    == 3     \* advances of the notifier clock by one tick
MaxNotifJumps    == 1     \* advances by more than the stale timeout
MaxUnregs        == 2     \* calls of unregister_connection from outside a
                          \* stream
MaxCancels       == 1     \* requests cancelled before their response streams
MaxBeats         == 6     \* heartbeat intervals the clock of the runs on the
                          \* clock counts before its origin moves
MaxQueueTracked  == 2     \* frames of a queue told apart in the runs on the
                          \* clock

\* The runs explored: many streams and no notification, one stream with
\* many notifications, two streams with two notifications, or two streams
\* with cancelled requests and unregister calls.  Each field is the number
\* of steps of its kind left to the run.
NotifBudgets ==
    { [opens |-> MaxOpens, delivers |-> 0, heartbeats |-> MaxHeartbeats,
       pulls |-> 0, ticks |-> 0, jumps |-> MaxNotifJumps, unregs |-> 0,
       cancels |-> 0],
      [opens |-> 1, delivers |-> MaxDelivers, heartbeats |-> 0,
       pulls |-> MaxPulls, ticks |-> MaxNotifTicks, jumps |-> 0, unregs |-> 0,
       cancels |-> 0],
      [opens |-> 2, delivers |-> 2, heartbeats |-> 1,
       pulls |-> 1, ticks |-> 0, jumps |-> 1, unregs |-> 0, cancels |-> 0],
      [opens |-> 2, delivers |-> 0, heartbeats |-> 0,
       pulls |-> 0, ticks |-> 0, jumps |-> 0, unregs |-> MaxUnregs,
       cancels |-> MaxCancels] }

NotifUsers == {"u1", "u2"}

\* identities of SSEConnection objects
ConnIds == 1..MaxOpens

\* SSEConnection(user_id=user_id): empty unbounded queue, empty rate_limiter
\* deque, connected_at = last_heartbeat = utcnow().  stream is the position of the
\* event_generator made for the connection: "running" (inside its try) or
\* "closed" (closed without ever having run).
SSEConnection(user_id, now, stream) ==
    [user_id |-> user_id, queue |-> <<>>, connected_at |-> now,
     last_heartbeat |-> now, rate_limiter |-> <<>>, stream |-> stream]

\* can_send_message, the while loop: drop the oldest timestamps that are
\* more than 1.0 s old
RECURSIVE PruneUpToWindowEdge(_, _)
PruneUpToWindowEdge(rate_limiter, now) ==
    IF rate_limiter # <<>> /\ (now - Head(rate_limiter)) >= 1 * TicksPerSecond
    THEN PruneUpToWindowEdge(Tail(rate_limiter), now)
    ELSE rate_limiter

RECURSIVE Prune(_, _)
Prune(rate_limiter, now) ==
    IF rate_limiter # <<>> /\ (now - Head(rate_limiter)) > 1 * TicksPerSecond
    THEN Prune(Tail(rate_limiter), now)
    ELSE rate_limiter

\* can_send_message, the test after the loop
can_send_message(pruned) == ~(Len(pruned) >= 10)

\* record_message: append to the deque(maxlen=10)
record_message(rate_limiter, now) ==
    LET appended == Append(rate_limiter, now)
    IN IF Len(appended) > 10 THEN Tail(appended) ELSE appended

\* is_stale(timeout_seconds=90)
is_stale(c, now) == (now - c.last_heartbeat) > 90 * TicksPerSecond

\* register_connection, `if len(self._connections[user_id]) >= 3`
AtConnectionLimitOffByOne(members) == Cardinality(members) > 3

AtConnectionLimit(members) == Cardinality(members) >= 3

\* self._connections.get(user_id, set())
ConnectionsOf(regs, user_id) ==
    IF user_id \in DOMAIN regs THEN regs[user_id] ELSE {}

\* self._connections[user_id] = members (the key is created when absent)
WithEntry(regs, user_id, members) ==
    [u \in DOMAIN regs \cup {user_id} |->
        IF u = user_id THEN members ELSE regs[u]]

\* unregister_connection: discard, and delete the entry when it is empty
Unregister(regs, id, user_id) ==
    IF user_id \in DOMAIN regs
    THEN LET rest == regs[user_id] \ {id}
         IN IF rest = {} THEN [u \in DOMAIN regs \ {user_id} |-> regs[u]]
            ELSE [regs EXCEPT ![user_id] = rest]
    ELSE regs

NewConnId == CHOOSE id \in ConnIds :
                /\ id \notin DOMAIN conn
                /\ \A other \in ConnIds : other \notin DOMAIN conn => id <= other

\* register_connection as called by the SSE endpoint.  The key of the user
\* is created first; at the limit ValueError is raised (429).  Otherwise the
\* connection is built and added to the set: set.add needs a hashable
\* object, and raises TypeError (500 at the endpoint, the empty entry of the
\* user stays behind) when SSEConnection is not hashable.
\* The endpoint then returns EventSourceResponse(event_generator()); the
\* body of the generator runs when the response iterates it (iterated).
\* When the request is cancelled, or its client goes away, before that, the
\* generator is closed without having entered its try: no finally clause
\* runs, nothing unregisters the connection, and the registry keeps the
\* object alive.
notification_stream(user_id, iterated) ==
    /\ notifBudget.opens > 0
    /\ ~iterated => notifBudget.cancels > 0
    /\ notifBudget' = [notifBudget EXCEPT
                         !.opens = @ - 1,
                         !.cancels = IF iterated THEN @ ELSE @ - 1]
    /\ LET members == ConnectionsOf(connections, user_id)
           before  == Cardinality(members)
       IN IF AtConnectionLimit(members)
          THEN /\ connections' = WithEntry(connections, user_id, members)
               /\ lastOpen' = [user_id |-> user_id, status |-> 429,
                               live_before |-> before, live_after |-> before]
               /\ UNCHANGED <<conn, sentLog>>
          ELSE IF ~hashable
          THEN /\ connections' = WithEntry(connections, user_id, members)
               /\ lastOpen' = [user_id |-> user_id, status |-> 500,
                               live_before |-> before, live_after |-> before]
               /\ UNCHANGED <<conn, sentLog>>
          ELSE LET id == NewConnId IN
               /\ connections' = WithEntry(connections, user_id, members \cup {id})
               /\ conn' = [c \in DOMAIN conn \cup {id} |->
                             IF c = id
                             THEN SSEConnection(user_id, notifNow,
                                     IF iterated THEN "running" ELSE "closed")
                             ELSE conn[c]]
               /\ sentLog' = [c \in DOMAIN conn \cup {id} |->
                                IF c = id THEN [sent |-> <<>>, limited |-> FALSE,
                                                bypassed |-> FALSE]
                                ELSE sentLog[c]]
               /\ lastOpen' = [user_id |-> user_id, status |-> 200,
                               live_before |-> before,
                               live_after |-> before + 1]
    /\ UNCHANGED <<notifNow, hashable, timers, lastUnreg>>
    /\ UNCHANGED notNotifier

\* event_generator ends (it sees the client gone at its next pass, or gets
\* CancelledError): the finally clause unregisters the connection, and the
\* object dies with the stream
client_disconnect(id) ==
    /\ id \in DOMAIN conn
    /\ conn[id].stream = "running"
    /\ connections' = Unregister(connections, id, conn[id].user_id)
    /\ conn' = [c \in DOMAIN conn \ {id} |-> conn[c]]
    /\ sentLog' = [c \in DOMAIN conn \ {id} |-> sentLog[c]]
    /\ UNCHANGED <<notifNow, hashable, lastOpen, timers, lastUnreg, notifBudget>>
    /\ UNCHANGED notNotifier

\* unregister_connection called with a connection object of owner user_id,
\* registered or not (a second call for a connection, or a call for one
\* that register_connection never returned).  When the owner has an entry,
\* set.discard hashes the object first, and raises TypeError when
\* SSEConnection is not hashable; the registry is then left as it was.
unregister_connection(id, user_id) ==
    /\ notifBudget.unregs > 0
    /\ notifBudget' = [notifBudget EXCEPT !.unregs = @ - 1]
    /\ id \in DOMAIN conn => user_id = conn[id].user_id
    /\ LET raised == ~hashable /\ user_id \in DOMAIN connections
           after  == IF raised THEN connections
                     ELSE Unregister(connections, id, user_id)
       IN /\ connections' = after
          /\ lastUnreg' =
                [called |-> TRUE, raised |-> raised,
                 was_registered |-> id \in ConnectionsOf(connections, user_id),
                 absent |-> id \notin ConnectionsOf(after, user_id),
                 entry_kept_empty |-> /\ user_id \in DOMAIN after
                                      /\ after[user_id] = {},
                 unchanged |-> after = connections]
    /\ UNCHANGED <<conn, notifNow, hashable, lastOpen, sentLog, timers>>
    /\ UNCHANGED notNotifier

\* event_generator: connection.queue.get() gives the oldest frame
stream_pull(id) ==
    /\ id \in DOMAIN conn
    /\ conn[id].stream = "running"
    /\ conn[id].queue # <<>>
    /\ notifBudget.pulls > 0
    /\ notifBudget' = [notifBudget EXCEPT !.pulls = @ - 1]
    /\ conn' = [conn EXCEPT ![id].queue = Tail(@)]
    /\ UNCHANGED <<connections, notifNow, hashable, lastOpen, sentLog, timers,
                   lastUnreg>>
    /\ UNCHANGED notNotifier

\* a send_notification that goes through every registered connection,
\* whoever owns it
send_notification_to_all(user_id) ==
    /\ notifBudget.delivers > 0
    /\ notifBudget' = [notifBudget EXCEPT !.delivers = @ - 1]
    /\ LET targets == UNION {connections[u] : u \in DOMAIN connections}
           Pruned(c) == Prune(conn[c].rate_limiter, notifNow)
       IN /\ conn' = [c \in DOMAIN conn |->
                        IF c \notin targets THEN conn[c]
                        ELSE IF ~can_send_message(Pruned(c))
                        THEN [conn[c] EXCEPT !.rate_limiter = Pruned(c)]
                        ELSE [conn[c] EXCEPT
                                !.rate_limiter = record_message(Pruned(c), notifNow),
                                !.queue = Append(@, [type |-> "notification",
                                                     user_id |-> user_id])]]
          /\ sentLog' = [c \in DOMAIN conn |->
                           IF c \notin targets
                           THEN [sentLog[c] EXCEPT
                                   !.bypassed = @ \/ conn[c].user_id = user_id]
                           ELSE IF ~can_send_message(Pruned(c))
                           THEN [sentLog[c] EXCEPT !.limited = TRUE]
                           ELSE [sentLog[c] EXCEPT !.sent = Append(@, notifNow)]]
    /\ UNCHANGED <<connections, notifNow, hashable, lastOpen, timers, lastUnreg>>
    /\ UNCHANGED notNotifier

\* send_notification: for every connection of the user, skip it when the
\* rate limiter says no, otherwise enqueue and record.  The readings of
\* time.time() within the call are one reading of the clock.
send_notification(user_id) ==
    /\ notifBudget.delivers > 0
    /\ notifBudget' = [notifBudget EXCEPT !.delivers = @ - 1]
    /\ LET targets == ConnectionsOf(connections, user_id)
           Pruned(c) == Prune(conn[c].rate_limiter, notifNow)
       IN /\ conn' = [c \in DOMAIN conn |->
                        IF c \notin targets THEN conn[c]
                        ELSE IF ~can_send_message(Pruned(c))
                        THEN [conn[c] EXCEPT !.rate_limiter = Pruned(c)]
                        ELSE [conn[c] EXCEPT
                                !.rate_limiter = record_message(Pruned(c), notifNow),
                                !.queue = Append(@, [type |-> "notification",
                                                     user_id |-> user_id])]]
          /\ sentLog' = [c \in DOMAIN conn |->
                           IF c \notin targets
                           THEN [sentLog[c] EXCEPT
                                   !.bypassed = @ \/ conn[c].user_id = user_id]
                           ELSE IF ~can_send_message(Pruned(c))
                           THEN [sentLog[c] EXCEPT !.limited = TRUE]
                           ELSE [sentLog[c] EXCEPT !.sent = Append(@, notifNow)]]
    /\ UNCHANGED <<connections, notifNow, hashable, lastOpen, timers, lastUnreg>>
    /\ UNCHANGED notNotifier

\* The runs on the clock go on for ever.  Times are compared only by
\* difference, and only with 30, 60 and 90 s, so when the clock reaches
\* ClockHorizon (more than 90 s) the origin of time moves on instead: every
\* recorded time goes back by the step, a time that would go before the
\* origin staying at it (it is then more than 90 s old whatever it was).
ClockHorizon == MaxBeats * 30 * TicksPerSecond

Rebase(t, step) == IF t >= step THEN t - step ELSE 0

\* `await connection.queue.put(frame)` on the unbounded queue.  In the runs
\* on the clock a queue nobody reads grows for ever: there the frames
\* beyond MaxQueueTracked are not told apart.
put(q, frame) ==
    IF timers.on /\ Len(q) >= MaxQueueTracked THEN q ELSE Append(q, frame)

\* `await asyncio.sleep(seconds)` at the head of a background loop
SleepOver(loop) == timers.on => notifNow >= timers.due[loop]

Sleep(loop, seconds) ==
    IF timers.on
    THEN [timers EXCEPT !.due[loop] = notifNow + seconds * TicksPerSecond]
    ELSE timers

\* a heartbeat pass that goes through every connection object alive,
\* registered or not
heartbeat_loop_all_alive ==
    /\ SleepOver("heartbeat")
    /\ timers' = Sleep("heartbeat", 30)
    /\ timers.on \/ notifBudget.heartbeats > 0
    /\ notifBudget' = IF timers.on THEN notifBudget
                      ELSE [notifBudget EXCEPT !.heartbeats = @ - 1]
    /\ LET all_connections == DOMAIN conn
       IN /\ conn' = [c \in DOMAIN conn |->
                        IF c \in all_connections
                        THEN [conn[c] EXCEPT
                                !.queue = put(@, [type |-> "heartbeat",
                                                  user_id |-> conn[c].user_id]),
                                !.last_heartbeat = notifNow]
                        ELSE conn[c]]
          /\ sentLog' = [c \in DOMAIN conn |->
                           [sentLog[c] EXCEPT
                              !.bypassed = @ \/ c \notin all_connections]]
    /\ UNCHANGED <<connections, notifNow, hashable, lastOpen, lastUnreg>>
    /\ UNCHANGED notNotifier

\* heartbeat_loop after its sleep of 30 s: send_heartbeat to every
\* registered connection (enqueue the frame, update_heartbeat), sleep again
heartbeat_loop ==
    /\ SleepOver("heartbeat")
    /\ timers' = Sleep("heartbeat", 30)
    /\ timers.on \/ notifBudget.heartbeats > 0
    /\ notifBudget' = IF timers.on THEN notifBudget
                      ELSE [notifBudget EXCEPT !.heartbeats = @ - 1]
    /\ LET all_connections == UNION {connections[u] : u \in DOMAIN connections}
       IN /\ conn' = [c \in DOMAIN conn |->
                        IF c \in all_connections
                        THEN [conn[c] EXCEPT
                                !.queue = put(@, [type |-> "heartbeat",
                                                  user_id |-> conn[c].user_id]),
                                !.last_heartbeat = notifNow]
                        ELSE conn[c]]
          /\ sentLog' = [c \in DOMAIN conn |->
                           [sentLog[c] EXCEPT
                              !.bypassed = @ \/ c \notin all_connections]]
    /\ UNCHANGED <<connections, notifNow, hashable, lastOpen, lastUnreg>>
    /\ UNCHANGED notNotifier

RECURSIVE UnregisterAll(_, _)
UnregisterAll(regs, ids) ==
    IF ids = {} THEN regs
    ELSE LET id == CHOOSE c \in ids : TRUE
         IN UnregisterAll(Unregister(regs, id, conn[id].user_id), ids \ {id})

\* cleanup_stale_connections after its sleep of 60 s: every registered
\* connection that is stale is unregistered; its stream goes on until the
\* client leaves
cleanup_stale_connections ==
    /\ SleepOver("cleanup")
    /\ timers' = Sleep("cleanup", 60)
    /\ LET all_connections == UNION {connections[u] : u \in DOMAIN connections}
           stale_connections == {c \in all_connections : is_stale(conn[c], notifNow)}
       IN connections' = UnregisterAll(connections, stale_connections)
    /\ UNCHANGED <<conn, notifNow, hashable, lastOpen, sentLog, lastUnreg,
                   notifBudget>>
    /\ UNCHANGED notNotifier

\* The clock moves on by one tick, or by more.  A loop whose sleep is over
\* runs before the clock passes its wake-up time.  In the runs on the clock
\* time goes on without limit (see ClockHorizon).
NotifClockTick(step) ==
    /\ timers.on => \A loop \in DOMAIN timers.due : notifNow + step <= timers.due[loop]
    /\ IF timers.on THEN UNCHANGED notifBudget
       ELSE IF step = 1
       THEN /\ notifBudget.ticks > 0
            /\ notifBudget' = [notifBudget EXCEPT !.ticks = @ - 1]
       ELSE /\ notifBudget.jumps > 0
            /\ notifBudget' = [notifBudget EXCEPT !.jumps = @ - 1]
    /\ IF timers.on /\ notifNow + step > ClockHorizon
       THEN /\ notifNow' = notifNow
            /\ conn' = [c \in DOMAIN conn |->
                          [conn[c] EXCEPT !.connected_at = Rebase(@, step),
                                          !.last_heartbeat = Rebase(@, step)]]
            /\ timers' = [timers EXCEPT
                             !.due = [loop \in DOMAIN @ |-> Rebase(@[loop], step)]]
       ELSE /\ notifNow' = notifNow + step
            /\ UNCHANGED <<conn, timers>>
    /\ UNCHANGED <<connections, hashable, lastOpen, sentLog, lastUnreg>>
    /\ UNCHANGED notNotifier

\* NotificationManager.__init__.  SSEConnection is a plain @dataclass: eq
\* without frozen sets __hash__ to None, so the objects of the class as
\* written are not hashable (hashable = FALSE).  hashable = TRUE is the class
\* with a hash by identity, which Set[SSEConnection] presupposes; only there
\* does the registry ever hold a connection.
InitRegistry ==
    /\ connections = <<>>
    /\ conn = <<>>
    /\ notifNow = 0
    /\ hashable \in BOOLEAN
    /\ lastOpen = [user_id |-> "", status |-> 0, live_before |-> 0,
                   live_after |-> 0]
    /\ sentLog = <<>>
    /\ lastUnreg = [called |-> FALSE, raised |-> FALSE, was_registered |-> FALSE,
                    absent |-> TRUE, entry_kept_empty |-> FALSE,
                    unchanged |-> TRUE]

\* runs in which the background loops wake up at any time
InitNotifier ==
    /\ InitRegistry
    /\ timers = [on |-> FALSE, due |-> [heartbeat |-> 0, cleanup |-> 0]]
    /\ notifBudget \in NotifBudgets

\* runs with two streams in which notifications, heartbeat passes, stale
\* connections, their eviction and unregister calls all meet
DeliveryNotifier ==
    /\ InitRegistry
    /\ timers = [on |-> FALSE, due |-> [heartbeat |-> 0, cleanup |-> 0]]
    /\ notifBudget = [opens |-> 2, delivers |-> 2,
                      heartbeats |-> MaxHeartbeats, pulls |-> 1,
                      ticks |-> 0, jumps |-> MaxNotifJumps,
                      unregs |-> 1, cancels |-> 0]

\* Runs on the clock: start_background_tasks starts both loops at time 0,
\* each in its first sleep; the clock goes on in steps of one heartbeat
\* interval, for ever.  The clients of these runs are silent: they take no
\* frame from their stream.
TimedNotifier ==
    /\ InitRegistry
    /\ timers = [on |-> TRUE, due |-> [heartbeat |-> 30 * TicksPerSecond,
                                       cleanup |-> 60 * TicksPerSecond]]
    /\ notifBudget = [opens |-> 2, delivers |-> 0, heartbeats |-> 0,
                      pulls |-> 0, ticks |-> 0, jumps |-> 0, unregs |-> 0,
                      cancels |-> MaxCancels]

NextNotifierTimed ==
    \/ \E u \in NotifUsers, iterated \in BOOLEAN : notification_stream(u, iterated)
    \/ \E id \in ConnIds : client_disconnect(id)
    \/ heartbeat_loop
    \/ cleanup_stale_connections
    \/ NotifClockTick(30 * TicksPerSecond)

NextNotifier ==
    \/ \E u \in NotifUsers, iterated \in BOOLEAN : notification_stream(u, iterated)
    \/ \E id \in ConnIds : client_disconnect(id)
    \/ \E id \in ConnIds, u \in NotifUsers : unregister_connection(id, u)
    \/ \E id \in ConnIds : stream_pull(id)
    \/ \E u \in NotifUsers : send_notification(u)
    \/ heartbeat_loop
    \/ cleanup_stale_connections
    \/ \E step \in {1, 90 * TicksPerSecond + 1} : NotifClockTick(step)

\* Claims about the notifier

InWindow(sent, from) ==
    Cardinality({j \in 1..Len(sent) :
                    from <= sent[j] /\ sent[j] <= from + TicksPerSecond})

C10_OpenSucceedsBelowLimit ==
    lastOpen.status # 0 =>
        /\ lastOpen.status = 429 <=> lastOpen.live_before = 3
        /\ lastOpen.live_before # 3 =>
              /\ lastOpen.status = 200
              /\ lastOpen.live_after = lastOpen.live_before + 1

Registered(c) == \E u \in DOMAIN connections : c \in connections[u]

\* a registered connection that was opened more than 90 s ago; in the runs
\* on the clock its client has taken nothing from the stream since
StaleClient(c) ==
    /\ c \in DOMAIN conn
    /\ Registered(c)
    /\ notifNow - conn[c].connected_at > 90 * TicksPerSecond

StreamEnded(c) == c \in DOMAIN conn /\ conn[c].stream = "closed"

C23_UnregisterIdempotent ==
    lastUnreg.called =>
        /\ ~lastUnreg.raised
        /\ lastUnreg.absent
        /\ ~lastUnreg.entry_kept_empty
        /\ ~lastUnreg.was_registered => lastUnreg.unchanged

----------------------------------------------------------------------------
\* Recurring generator (services/recurring_processor)

\* Bounds of the generator model.  Dates are day numbers; day 0 is a Monday.
MaxRecDay  == 2       \* date.today() takes the values 0..MaxRecDay
MaxRecRuns == 3       \* runs of process_recurring_tasks started

\* The templates found by find_recurring_tasks (rows of tasks with a
\* recurrence_pattern that are no instances themselves), in the order of
\* created_at.  "every-day" is a pattern validate_pattern rejects.
Templates ==
    << [id |-> "T1", recurrence_pattern |-> "daily", created_at |-> 0],
       [id |-> "T2", recurrence_pattern |-> "weekly:monday", created_at |-> 0],
       [id |-> "T3", recurrence_pattern |-> "every-day", created_at |-> 0] >>

TemplateIds == {Templates[i].id : i \in 1..Len(Templates)}

TemplateOf(id) == Templates[CHOOSE i \in 1..Len(Templates) : Templates[i].id = id]

RecDays == 0..MaxRecDay

\* datetime.weekday(): 0 is Monday
weekday(d) == d % 7

\* parse_recurrence_pattern: the pattern type and the sorted weekday
\* numbers, or ValueError
parse_recurrence_pattern(pattern) ==
    CASE pattern = "daily"         -> [res |-> "ok", pattern_type |-> "daily", days |-> <<>>]
      [] pattern = "weekly"        -> [res |-> "ok", pattern_type |-> "weekly", days |-> <<>>]
      [] pattern = "weekly:monday" -> [res |-> "ok", pattern_type |-> "weekly", days |-> <<0>>]
      [] OTHER                     -> [res |-> "ValueError", pattern_type |-> "", days |-> <<>>]

\* calculate_next_occurrence for the daily and weekly patterns
calculate_next_occurrence(pattern, from_date) ==
    IF pattern.pattern_type = "daily" THEN from_date + 1
    ELSE IF pattern.days # <<>>
    THEN LET current_weekday == weekday(from_date)
             ahead == {k \in 1..Len(pattern.days) : pattern.days[k] > current_weekday}
         IN IF ahead # {}
            THEN from_date + (pattern.days[CHOOSE k \in ahead : \A j \in ahead : k <= j]
                              - current_weekday)
            ELSE from_date + (7 - current_weekday) + pattern.days[1]
    ELSE from_date + 7

\* get_all_occurrences: start_date and what calculate_next_occurrence gives
\* from there, up to the last day looked at
RECURSIVE get_all_occurrences(_, _, _)
get_all_occurrences(pattern, start_date, last) ==
    IF start_date > last THEN {}
    ELSE {start_date}
         \cup get_all_occurrences(pattern,
                                  calculate_next_occurrence(pattern, start_date), last)

\* the occurrence dates of a template up to the last day looked at; the
\* first one is the next occurrence after the day before its creation
OccurrenceDates(template, last) ==
    LET pattern == parse_recurrence_pattern(template.recurrence_pattern)
    IN IF pattern.res # "ok" THEN {}
       ELSE get_all_occurrences(pattern,
                calculate_next_occurrence(pattern, template.created_at - 1), last)

\* check_instance_exists: SELECT COUNT(*) ... > 0, and False on any error
check_instance_exists(rows, parent_task_id, occurrence_date, db_ok) ==
    IF ~db_ok THEN FALSE
    ELSE \E row \in rows : /\ row.parent_recurring_task_id = parent_task_id
                           /\ row.occurrence_date = occurrence_date

\* create_task_instance: the POST to the Task API is commented out; the
\* function logs "Task instance created (simulated)" and returns True
create_task_instance(parent_task, occurrence_date) == TRUE

IdleRun == [pc |-> "idle", left |-> <<>>, today |-> 0, instances_created |-> 0,
            created_for |-> {}]

InFlight == {origin \in DOMAIN recRuns : recRuns[origin].pc # "idle"}

\* start_scheduler: the interval job is added with max_instances = 1 and
\* coalesce, the scheduler is started, and process_recurring_tasks is
\* started at once as a task of its own (asyncio.create_task)
start_scheduler ==
    /\ ~recStarted
    /\ recStarted' = TRUE
    /\ recRuns' = [recRuns EXCEPT !["startup"] = [IdleRun EXCEPT !.pc = "find"]]
    /\ recBudget' = recBudget + 1
    /\ UNCHANGED <<recToday, instances, recRequests, recReport>>
    /\ UNCHANGED notGenerator

\* The interval trigger fires.  APScheduler starts the job unless an
\* instance it started itself is still running (max_instances = 1), then
\* the run is skipped; run times missed meanwhile are coalesced into the
\* one firing.
interval_job_fires ==
    /\ recStarted
    /\ recBudget < MaxRecRuns
    /\ recRuns["interval"].pc = "idle"
    /\ recRuns' = [recRuns EXCEPT !["interval"] = [IdleRun EXCEPT !.pc = "find"]]
    /\ recBudget' = recBudget + 1
    /\ UNCHANGED <<recStarted, recToday, instances, recRequests, recReport>>
    /\ UNCHANGED notGenerator

\* generate_due_task_instances up to the loop: find_recurring_tasks gives
\* the templates, or [] on any error; with no template the run returns 0;
\* today = date.today()
find_recurring_tasks(origin, db_ok) ==
    /\ recRuns[origin].pc = "find"
    /\ IF db_ok
       THEN /\ recRuns' = [recRuns EXCEPT ![origin] =
                             [pc |-> "loop", left |-> Templates,
                              today |-> recToday, instances_created |-> 0,
                              created_for |-> {}]]
            /\ UNCHANGED recReport
       ELSE /\ recRuns' = [recRuns EXCEPT ![origin] = IdleRun]
            /\ recReport' = [origin |-> origin, today |-> recToday,
                             instances_created |-> 0, created_for |-> {}]
    /\ UNCHANGED <<recStarted, recToday, instances, recRequests, recBudget>>
    /\ UNCHANGED notGenerator

\* One pass of the loop over the templates: parse the pattern (an error
\* skips the template), ask whether an instance exists for today, and
\* create one when not.  After the last template the run returns
\* instances_created.
generate_for_template(origin, db_ok) ==
    /\ recRuns[origin].pc = "loop"
    /\ LET run     == recRuns[origin]
           task    == Head(run.left)
           pattern == parse_recurrence_pattern(task.recurrence_pattern)
           instance_exists ==
               check_instance_exists(instances, task.id, run.today, db_ok)
           success == /\ pattern.res = "ok"
                      /\ ~instance_exists
                      /\ create_task_instance(task, run.today)
           created == run.instances_created + (IF success THEN 1 ELSE 0)
           created_for == IF success THEN {task.id} ELSE {}
       IN /\ recRequests' =
                IF pattern.res = "ok" /\ ~instance_exists
                THEN [recRequests EXCEPT ![<<task.id, run.today>>] = @ + 1]
                ELSE recRequests
          /\ IF Tail(run.left) = <<>>
             THEN /\ recRuns' = [recRuns EXCEPT ![origin] = IdleRun]
                  /\ recReport' = [origin |-> origin, today |-> run.today,
                                   instances_created |-> created,
                                   created_for |-> run.created_for \cup created_for]
             ELSE /\ recRuns' = [recRuns EXCEPT ![origin] =
                                   [run EXCEPT !.left = Tail(@),
                                               !.instances_created = created,
                                               !.created_for = @ \cup created_for]]
                  /\ UNCHANGED recReport
    /\ UNCHANGED <<recStarted, recToday, instances, recBudget>>
    /\ UNCHANGED notGenerator

RecDayTick ==
    /\ recToday < MaxRecDay
    /\ recToday' = recToday + 1
    /\ UNCHANGED <<recStarted, recRuns, instances, recRequests, recReport,
                   recBudget>>
    /\ UNCHANGED notGenerator

InitGenerator ==
    /\ recStarted = FALSE
    /\ recRuns = [origin \in {"startup", "interval"} |-> IdleRun]
    /\ recToday = 0
    /\ instances = {}
    /\ recRequests = [k \in TemplateIds \X RecDays |-> 0]
    /\ recReport = [origin |-> "", today |-> 0, instances_created |-> 0,
                    created_for |-> {}]
    /\ recBudget = 0

NextGenerator ==
    \/ start_scheduler
    \/ interval_job_fires
    \/ \E origin \in {"startup", "interval"}, db_ok \in BOOLEAN :
          find_recurring_tasks(origin, db_ok)
    \/ \E origin \in {"startup", "interval"}, db_ok \in BOOLEAN :
          generate_for_template(origin, db_ok)
    \/ RecDayTick

\* Claims about the recurring generator

\* C11 as claimed: for every template and every day, create_task_instance
\* was called at most once with that parent and that occurrence date.
C11_OneChildPerDay ==
    \A k \in TemplateIds \X RecDays : recRequests[k] <= 1

\* C12 as claimed: a child is requested for a template on day d only when d
\* is an occurrence date of the template's pattern.
C12_OnlyOnOccurrenceDates ==
    \A k \in TemplateIds \X RecDays :
        recRequests[k] > 0 => k[2] \in OccurrenceDates(TemplateOf(k[1]), MaxRecDay)

\* C16 as claimed: at most one run of process_recurring_tasks is in flight.
C16_OneRunInFlight ==
    Cardinality(InFlight) <= 1
----------------------------------------------------------------------------
\* Task API (src/services/task_service.py, src/dapr_integration)

\* Bound of the Task API model
MaxApiCalls == 4      \* calls of TaskService operations

ApiTaskIds == {"k1", "k2"}

\* the rows of table tasks, by id; a row that does not exist is NoTask
NoTask == [exists |-> FALSE, title |-> "", completed |-> FALSE]

Task(title, completed) == [exists |-> TRUE, title |-> title, completed |-> completed]

\* TaskCreate.title as sent by the client; "" is a title that is blank
\* after strip()
CreateTitles == {"", "x"}

\* TaskUpdate as sent by the client; "None" is a field left out
TaskUpdates ==
    { [title |-> "None", completed |-> "None"],
      [title |-> "",     completed |-> "None"],
      [title |-> "x",    completed |-> "None"],
      [title |-> "y",    completed |-> "None"],
      [title |-> "None", completed |-> "True"],
      [title |-> "None", completed |-> "False"] }

\* settings.DAPR_ENABLED and whether the Dapr SDK can be imported
ApiConfigs ==
    { [DAPR_ENABLED |-> TRUE,  sdk |-> TRUE],
      [DAPR_ENABLED |-> TRUE,  sdk |-> FALSE],
      [DAPR_ENABLED |-> FALSE, sdk |-> TRUE] }

\* get_publisher: the DaprEventPublisher, or the mock when importing the
\* publisher module raises ImportError
get_publisher(conf) ==
    IF conf.sdk THEN "DaprEventPublisher" ELSE "_MockPublisher"

\* DaprEventPublisher.publish_event returns True when the client call went
\* through and False when it raised; _MockPublisher always returns False.
publish_event(publisher, broker_ok) ==
    publisher = "DaprEventPublisher" /\ broker_ok

\* _publish_task_*_event of TaskService: get the publisher, publish, log
\* the outcome; nothing is raised to the caller.
publish_task_event_raising(conf, broker_ok) ==
    [published |-> publish_event(get_publisher(conf), broker_ok),
     raised    |-> ~publish_event(get_publisher(conf), broker_ok)]

publish_task_event(conf, broker_ok) ==
    [published |-> publish_event(get_publisher(conf), broker_ok),
     raised    |-> FALSE]

\* what an operation of TaskService gives: the table after it, the returned
\* pair (task or flag, error), the events handed to the broker, and
\* whether a change of the table was committed
Outcome(store, ok, error, events, committed) ==
    [tasks |-> store, ok |-> ok, error |-> error, events |-> events,
     committed |-> committed]

EventsOf(pub, event_type) == IF pub.published THEN <<event_type>> ELSE <<>>

\* create_task; id is the uuid4 drawn for the new task
create_task(store, id, title, conf, broker_ok, db_ok) ==
    IF title = "" THEN Outcome(store, FALSE, "Task title cannot be empty", <<>>, FALSE)
    ELSE IF ~db_ok THEN Outcome(store, FALSE, "Failed to create task", <<>>, FALSE)
    ELSE LET created == [store EXCEPT ![id] = Task(title, FALSE)] IN
         IF ~conf.DAPR_ENABLED THEN Outcome(created, TRUE, "", <<>>, TRUE)
         ELSE LET pub == publish_task_event(conf, broker_ok) IN
              IF pub.raised
              THEN Outcome(created, FALSE, "Failed to create task",
                           EventsOf(pub, "task.created"), TRUE)
              ELSE Outcome(created, TRUE, "", EventsOf(pub, "task.created"), TRUE)

\* the changes update_task collects, as the set of changed fields
ChangesOf(task, task_data) ==
    {f \in {"title"} : task_data.title # "None" /\ task.title # task_data.title}
    \cup {f \in {"completed"} :
            /\ task_data.completed # "None"
            /\ task.completed # (task_data.completed = "True")}

\* update_task
update_task(store, id, task_data, conf, broker_ok, db_ok) ==
    IF ~store[id].exists
    THEN Outcome(store, FALSE, "Task not found or you don't have permission to edit it",
                 <<>>, FALSE)
    ELSE IF task_data.title = ""
    THEN Outcome(store, FALSE, "Task title cannot be empty", <<>>, FALSE)
    ELSE IF ~db_ok THEN Outcome(store, FALSE, "Failed to update task", <<>>, FALSE)
    ELSE LET task == store[id]
             changes == ChangesOf(task, task_data)
             updated == [store EXCEPT ![id] =
                           Task(IF "title" \in changes THEN task_data.title
                                ELSE task.title,
                                IF "completed" \in changes
                                THEN task_data.completed = "True"
                                ELSE task.completed)]
         IN IF ~conf.DAPR_ENABLED \/ changes = {}
            THEN Outcome(updated, TRUE, "", <<>>, changes # {})
            ELSE LET pub == publish_task_event(conf, broker_ok) IN
                 IF pub.raised
                 THEN Outcome(updated, FALSE, "Failed to update task",
                              EventsOf(pub, "task.updated"), TRUE)
                 ELSE Outcome(updated, TRUE, "", EventsOf(pub, "task.updated"), TRUE)

\* delete_task: the event is published before the row is deleted
delete_task(store, id, conf, broker_ok, db_ok) ==
    IF ~store[id].exists
    THEN Outcome(store, FALSE, "Task not found or you don't have permission to delete it",
                 <<>>, FALSE)
    ELSE LET pub == IF conf.DAPR_ENABLED THEN publish_task_event(conf, broker_ok)
                    ELSE [published |-> FALSE, raised |-> FALSE]
         IN IF pub.raised \/ ~db_ok
            THEN Outcome(store, FALSE, "Failed to delete task",
                         EventsOf(pub, "task.deleted"), FALSE)
            ELSE Outcome([store EXCEPT ![id] = NoTask], TRUE, "",
                         EventsOf(pub, "task.deleted"), TRUE)

\* toggle_task_completion: task.completed is published only when the task
\* went from not completed to completed
toggle_task_completion(store, id, conf, broker_ok, db_ok) ==
    IF ~store[id].exists
    THEN Outcome(store, FALSE, "Task not found or you don't have permission to edit it",
                 <<>>, FALSE)
    ELSE IF ~db_ok THEN Outcome(store, FALSE, "Failed to update task", <<>>, FALSE)
    ELSE LET old_completed == store[id].completed
             toggled == [store EXCEPT ![id].completed = ~old_completed]
         IN IF ~conf.DAPR_ENABLED \/ old_completed
            THEN Outcome(toggled, TRUE, "", <<>>, TRUE)
            ELSE LET pub == publish_task_event(conf, broker_ok) IN
                 IF pub.raised
                 THEN Outcome(toggled, FALSE, "Failed to update task",
                              EventsOf(pub, "task.completed"), TRUE)
                 ELSE Outcome(toggled, TRUE, "", EventsOf(pub, "task.completed"), TRUE)

NoUpdate == [title |-> "None", completed |-> "None"]

\* the operation of a call, as a function of the table and the environment
ApiOutcome(call, store, conf, broker_ok) ==
    CASE call.op = "create_task" ->
           create_task(store, call.id, call.title, conf, broker_ok, call.db_ok)
      [] call.op = "update_task" ->
           update_task(store, call.id, call.task_data, conf, broker_ok, call.db_ok)
      [] call.op = "delete_task" ->
           delete_task(store, call.id, conf, broker_ok, call.db_ok)
      [] call.op = "toggle_task_completion" ->
           toggle_task_completion(store, call.id, conf, broker_ok, call.db_ok)

ApiCall(op, id, title, task_data, db_ok) ==
    [op |-> op, id |-> id, title |-> title, task_data |-> task_data, db_ok |-> db_ok]

\* One request to the Task API: the table becomes what the operation
\* leaves, and apiLast records the call and what it returned.
ApiRequest(call, broker_ok) ==
    /\ apiLast.n < MaxApiCalls
    /\ LET o == ApiOutcome(call, tasks, apiConf, broker_ok) IN
       /\ tasks' = o.tasks
       /\ apiLast' = [n |-> apiLast.n + 1, call |-> call, broker_ok |-> broker_ok,
                      ok |-> o.ok, error |-> o.error, events |-> o.events,
                      committed |-> o.committed]
    /\ UNCHANGED apiConf
    /\ UNCHANGED notApi

CreateTask(id, title, broker_ok, db_ok) ==
    /\ ~tasks[id].exists
    /\ ApiRequest(ApiCall("create_task", id, title, NoUpdate, db_ok), broker_ok)

UpdateTask(id, task_data, broker_ok, db_ok) ==
    /\ id \in ApiTaskIds
    /\ ApiRequest(ApiCall("update_task", id, "", task_data, db_ok), broker_ok)

DeleteTask(id, broker_ok, db_ok) ==
    /\ id \in ApiTaskIds
    /\ ApiRequest(ApiCall("delete_task", id, "", NoUpdate, db_ok), broker_ok)

ToggleTaskCompletion(id, broker_ok, db_ok) ==
    /\ id \in ApiTaskIds
    /\ ApiRequest(ApiCall("toggle_task_completion", id, "", NoUpdate, db_ok), broker_ok)

InitApi ==
    /\ tasks = [id \in ApiTaskIds |-> NoTask]
    /\ apiConf \in ApiConfigs
    /\ apiLast = [n |-> 0, call |-> ApiCall("", "", "", NoUpdate, TRUE),
                  broker_ok |-> TRUE, ok |-> TRUE, error |-> "", events |-> <<>>,
                  committed |-> FALSE]

NextApi ==
    \/ \E id \in ApiTaskIds, title \in CreateTitles, broker_ok, db_ok \in BOOLEAN :
          CreateTask(id, title, broker_ok, db_ok)
    \/ \E id \in ApiTaskIds, task_data \in TaskUpdates, broker_ok, db_ok \in BOOLEAN :
          UpdateTask(id, task_data, broker_ok, db_ok)
    \/ \E id \in ApiTaskIds, broker_ok, db_ok \in BOOLEAN :
          DeleteTask(id, broker_ok, db_ok)
    \/ \E id \in ApiTaskIds, broker_ok, db_ok \in BOOLEAN :
          ToggleTaskCompletion(id, broker_ok, db_ok)

\* Claims about the Task API

\* the broker took every event of the last call
BrokerAccepts == apiConf.DAPR_ENABLED /\ apiConf.sdk /\ apiLast.broker_ok

\* C17 as claimed: a call that committed a change of a task, with publishing
\* enabled and the broker accepting, has emitted exactly one event.
C17_OneEventPerMutation ==
    (apiLast.committed /\ BrokerAccepts) => Len(apiLast.events) = 1

\* C18: publishing never raises into the operation: whatever the publisher
\* (mock or Dapr) and whether or not the broker is reachable, a call leaves
\* the table and returns the pair that the same call gives when the
\* publish succeeds.
C18_PublishFailureUnseen ==
    [][apiLast'.n # apiLast.n =>
         LET succeeded == ApiOutcome(apiLast'.call, tasks,
                                     [DAPR_ENABLED |-> TRUE, sdk |-> TRUE], TRUE)
         IN /\ tasks' = succeeded.tasks
            /\ apiLast'.ok = succeeded.ok
            /\ apiLast'.error = succeeded.error]_vars

\* a delete went through although its publish failed
C18_Witness ==
    /\ apiLast.call.op = "delete_task"
    /\ apiConf.DAPR_ENABLED
    /\ apiLast.events = <<>>
    /\ apiLast.committed
    /\ apiLast.ok

\* C33: a call that commits the change of a task from not completed to
\* completed, by toggle_task_completion or by update_task, publishes
\* task.completed (publishing enabled and the broker accepting), the event
\* on which the reminder engine removes the task's pending reminder.
C33_CompletionPublished ==
    [][(/\ apiLast'.n # apiLast.n
        /\ apiLast'.committed
        /\ apiConf.DAPR_ENABLED /\ apiConf.sdk /\ apiLast'.broker_ok
        /\ tasks[apiLast'.call.id].exists
        /\ ~tasks[apiLast'.call.id].completed
        /\ tasks'[apiLast'.call.id].completed) =>
           \E i \in 1..Len(apiLast'.events) :
              apiLast'.events[i] = "task.completed"]_vars

\* C37: an event is published only for a write that was committed: a
\* call whose commit failed or was rolled back has published nothing.
C37_PublishedOnlyAfterCommit ==
    (apiLast.n > 0 /\ ~apiLast.call.db_ok) => apiLast.events = <<>>

----------------------------------------------------------------------------
\* Claims about the audit ingestor

AuditQueries == AuditTaskIds \X (1..MaxLimit)

\* C1: whatever was delivered and however the flushes interleaved, no
\* event_id occurs twice in any result of get_task_events.
C1_EventIdAtMostOnce ==
    \A q \in AuditQueries : \A res \in get_task_events(q[1], q[2]) :
        \A i, j \in 1..Len(res) : i # j => res[i].event_id # res[j].event_id

\* e1 went through the INSERT of committed flushes at least twice (two
\* deliveries), nothing is pending, and the history of t1 shows it once.
C1_Witness ==
    /\ inserted["e1"] >= 2
    /\ buffer = <<>> /\ flight = <<>>
    /\ \E res \in get_task_events("t1", MaxLimit) :
          Cardinality({i \in 1..Len(res) : res[i].event_id = "e1"}) = 1

\* C14 as claimed: when stop_background_task has returned and no database
\* write has failed, the buffer is empty and every event accepted by
\* write_event has a row in task_events.
C14_TeardownWritesAll ==
    (auditPc = "down" /\ ~dbFailed) =>
        /\ buffer = <<>>
        /\ \A e \in AuditEventIds :
              delivered[e] > 0 => \E r \in task_events : r.event_id = e

\* C20 as claimed: an event whose handling failed downstream is answered
\* with 500 by the dispatch endpoint.
C20_FailureAnswered500 ==
    auditReply.failed => auditReply.status = 500

\* C15 as claimed: at most one flush() at a time is between taking its
\* batch out of the buffer and the end of its database write.
C15_OneFlushAtATime ==
    Len(flight) <= 1

\* get_task_events as a whole: the rows of the SELECT, or [] when anything
\* in it raised (engine, session or query); the error is logged only.
get_task_events_result(task_id, limit, db_ok) ==
    IF db_ok THEN get_task_events(task_id, limit) ELSE {<<>>}

\* get_task_audit_history (GET /api/v1/audit/tasks/{task_id}): 404 when the
\* list is empty, 200 with the list otherwise; 500 is the answer to an
\* exception other than HTTPException, which get_task_events never lets out.
get_task_audit_history(task_id, limit, db_ok) ==
    { IF events = <<>> THEN [status |-> 404, events |-> <<>>]
      ELSE [status |-> 200, events |-> events] :
        events \in get_task_events_result(task_id, limit, db_ok) }

\* C21 as claimed: the query endpoint answers 200 with the records when a
\* stored record matches the task id, 404 when none matches, and 500 when
\* the query fails with a storage error.
C21_QueryStatus ==
    \A q \in AuditQueries, db_ok \in BOOLEAN :
        \A reply \in get_task_audit_history(q[1], q[2], db_ok) :
            IF ~db_ok THEN reply.status = 500
            ELSE IF TaskRows(q[1]) = {} THEN reply.status = 404
            ELSE reply.status = 200 /\ reply.events \in get_task_events(q[1], q[2])

\* C22: task_events is append-only.  No step changes or removes a stored
\* row: every row stored before a step is stored, as it was, after it, also
\* when the step inserts the same event_id with other content.
C22_AppendOnly ==
    [][\A r \in task_events : r \in task_events']_vars

\* an INSERT met a stored row of its event_id with other content, e1 went
\* through committed INSERTs twice, and the row of e1 is the one written
\* first (received at time 0)
C22_Witness ==
    /\ conflicted
    /\ inserted["e1"] >= 2 /\ inserted["e2"] = 0 /\ inserted["e3"] = 0
    /\ \E r \in task_events : r.event_id = "e1" /\ r.timestamp = 0
    /\ auditNow > 0

\* C9 as claimed: every result has at most limit records and is in
\* ascending order of the producer's stamp.
C9_OrderedByOccurredAt ==
    \A q \in AuditQueries : \A res \in get_task_events(q[1], q[2]) :
        /\ Len(res) <= q[2]
        /\ \A i, j \in 1..Len(res) :
              i < j => res[i].payload.timestamp <= res[j].payload.timestamp

\* buffer entries and batch entries of event e that are with no finished
\* flush yet
Held(e) ==
    CountInBatch(buffer, e)
    + SumOver([i \in 1..Len(flight) |-> CountInBatch(flight[i].events, e)],
              1..Len(flight))

\* C35: under every interleaving of write_event, size-triggered flushes and
\* the flush tick each accepted event is taken by exactly one batch.  A
\* step that empties the buffer puts what it held into one new batch (with
\* the event just appended when write_event flushes); the
\* entries held in the buffer and the batches, together with the INSERTs of
\* finished flushes, never outnumber the deliveries accepted (no entry is
\* in two batches or written twice); and an event in the buffer does not
\* stay there: the buffer is emptied again while the tick runs.
C35_TakenByOneBatch ==
    /\ [][/\ (buffer # <<>> /\ buffer' = <<>>) =>
                /\ Len(flight') >= 1 /\ Len(flight') <= Len(flight) + 1
                /\ SubSeq(flight'[Len(flight')].events, 1, Len(buffer)) = buffer
           /\ \A e \in AuditEventIds :
                 Held(e)' + inserted'[e] - (Held(e) + inserted[e])
                    <= delivered'[e] - delivered[e]]_vars
    /\ [](\A e \in AuditEventIds : Held(e) + inserted[e] <= delivered[e])
    /\ (buffer # <<>>) ~> (buffer = <<>>)

\* the tick took an event while a size-triggered flush of two others is
\* inside its database write, and a fourth event is in the buffer
C35_Witness ==
    /\ Len(flight) = 2 /\ Len(buffer) = 1
    /\ \E i, j \in 1..2 :
          /\ flight[i].by = "write_event" /\ Len(flight[i].events) = BATCH_SIZE
          /\ flight[j].by = "flush_loop" /\ Len(flight[j].events) = 1
    /\ \A e \in AuditEventIds : Held(e) = delivered[e]

\* Claims about the firing loop

\* C39: a due reminder whose publish fails is dropped: it is out of the
\* heap, it is not put back, no later tick publishes it, and the same tick
\* goes on with the reminders that are still due; the count a tick returns
\* is the number of reminders it published.
C39_FailedPublishDropped ==
    [][/\ publish_returns_counted(FALSE) =>
             /\ published' = published
             /\ HeapCount(queue', sched.item) <= HeapCount(queue, sched.item)
             /\ DropKey(sched.item) \in firing'.failed \cup firing'.dropped
             /\ (queue # <<>> /\ IsDue(queue[1], sched.now)) =>
                   /\ sched'.pc = "publish" /\ sched'.now = sched.now
                   /\ \E i \in 1..Len(queue) :
                         queue[i] = sched'.item /\ IsDue(queue[i], sched.now)
                   /\ Len(queue') = Len(queue) - 1
       /\ \A i \in 1..Len(queue') : DropKey(queue'[i]) \notin firing'.dropped
       /\ sched'.pc = "publish" => DropKey(sched'.item) \notin firing'.dropped
       /\ Len(published') > Len(published) =>
             DropKey(published'[Len(published')]) \notin firing.dropped
       /\ sched'.pc = "publish" =>
             firing'.triggered_count = Len(published') - firing'.first
       /\ (sched.pc = "publish" /\ sched'.pc = "sleep") =>
             firing'.returned = Len(published') - firing.first
       /\ (sched.pc = "sleep" /\ sched'.pc = "sleep" /\ firing' # firing) =>
             firing'.returned = 0 /\ published' = published]_vars

\* a tick found the reminders of t1 and t2 due, the publish for t1 failed
\* and the one for t2 succeeded: the tick returned 1, and t1 is in no heap
\* and in no event
C39_Witness ==
    /\ sched.pc = "sleep"
    /\ firing.returned = 1
    /\ \E k \in firing.dropped : k.task_id = "t1"
    /\ PubCount(published, "t1") = 0
    /\ PubCount(published, "t2") = 1
    /\ EntriesOf(queue, "t1") = {}
    /\ published[1].tick_now >= 2

----------------------------------------------------------------------------
\* Monthly recurrence on calendar dates (src/utils/recurrence.py)

\* Bounds of the calendar model
MaxYearSpan       == 1     \* from-dates lie in 2023..2023 + MaxYearSpan and in
                           \* the century years 1900 and 2000
MaxOccurrences    == 2     \* dates computed by one get_all_occurrences

CalYears == {1900, 2000} \cup (2023..(2023 + MaxYearSpan))

\* calendar.isleap
isleap(year) == year % 4 = 0 /\ (year % 100 # 0 \/ year % 400 = 0)

\* calendar.monthrange(year, month)[1]: the number of days of the month
monthrange(year, month) ==
    IF month = 2 THEN (IF isleap(year) THEN 29 ELSE 28)
    ELSE IF month \in {4, 6, 9, 11} THEN 30
    ELSE 31

\* the date part of a datetime; from_date.replace(...) sets the time of
\* day to 00:00:00
CalDate(year, month, day) == [year |-> year, month |-> month, day |-> day]

\* what datetime accepts (replace raises ValueError otherwise)
ValidDate(date) ==
    /\ date.month \in 1..12
    /\ date.day \in 1..monthrange(date.year, date.month)

CalDates ==
    {CalDate(y, m, d) : y \in CalYears, m \in 1..12, d \in 1..31}

FromDates == {date \in CalDates : ValidDate(date)}

\* RecurrencePattern.dates of "monthly" (none), "monthly:<d>" for every d
\* validate_pattern accepts, and some patterns of two dates, sorted
MonthlyDates ==
    {<<>>} \cup {<<d>> : d \in 1..31} \cup {<<15, 31>>, <<1, 29>>, <<30, 31>>}

\* the first date of the pattern after current_day, 0 for None
TargetDayAhead(dates, current_day) ==
    LET ahead == {k \in 1..Len(dates) : dates[k] > current_day}
    IN IF ahead = {} THEN 0
       ELSE dates[CHOOSE k \in ahead : \A j \in ahead : k <= j]

\* calculate_next_occurrence, pattern_type "monthly", without the min()
\* against monthrange
calculate_next_occurrence_unclamped(dates, from_date) ==
    LET ahead == TargetDayAhead(dates, from_date.day)
        wraps == dates = <<>> \/ ahead = 0
        next_month == IF wraps THEN from_date.month + 1 ELSE from_date.month
        month == IF next_month > 12 THEN 1 ELSE next_month
        year  == IF next_month > 12 THEN from_date.year + 1 ELSE from_date.year
        target_day == IF dates = <<>> THEN from_date.day
                      ELSE IF ahead = 0 THEN dates[1] ELSE ahead
    IN CalDate(year, month, target_day)

\* calculate_next_occurrence, pattern_type "monthly": with dates, the first
\* date of the pattern after from_date.day in the month of from_date, or
\* the first date of the pattern in the next month; without dates, the day
\* of from_date in the next month.  The day is cut to the length of the
\* month chosen.
calculate_next_occurrence_monthly(dates, from_date) ==
    LET ahead == TargetDayAhead(dates, from_date.day)
        wraps == dates = <<>> \/ ahead = 0
        next_month == IF wraps THEN from_date.month + 1 ELSE from_date.month
        month == IF next_month > 12 THEN 1 ELSE next_month
        year  == IF next_month > 12 THEN from_date.year + 1 ELSE from_date.year
        target_day == IF dates = <<>> THEN from_date.day
                      ELSE IF ahead = 0 THEN dates[1] ELSE ahead
        max_day_in_month == monthrange(year, month)
    IN CalDate(year, month, Min(target_day, max_day_in_month))

\* get_all_occurrences, one pass of its loop: next_date is computed from
\* current_date, appended, and becomes current_date
get_all_occurrences_pass ==
    /\ occurrences.n < MaxOccurrences
    /\ LET current_date == occurrences.next_date
       IN occurrences' =
             [occurrences EXCEPT
                !.current_date = current_date,
                !.next_date = calculate_next_occurrence_monthly(occurrences.dates,
                                                                current_date),
                !.n = @ + 1]
    /\ UNCHANGED notCalendar

\* occurrences = [start_date], current_date = start_date
StartOccurrences(dates, start_date) ==
    [dates |-> dates, current_date |-> start_date, next_date |-> start_date,
     n |-> 0]

InitCalendar ==
    occurrences \in {StartOccurrences(dates, start_date) :
                        dates \in MonthlyDates, start_date \in FromDates}

IdleCalendar ==
    occurrences = StartOccurrences(<<>>, CalDate(2023, 1, 1))

NextCalendar == get_all_occurrences_pass

\* Claims about the monthly recurrence

\* C29: for a monthly pattern with days of the month, the date computed is
\* a valid calendar date whose day is a day of the pattern, or the last day
\* of its month when the month is shorter than that day; monthly:31
\* computed from a date in February is the last day of that February.
C29_MonthlyClampsToMonthEnd ==
    (occurrences.n > 0 /\ occurrences.dates # <<>>) =>
        LET dates == occurrences.dates
            from_date == occurrences.current_date
            next_date == occurrences.next_date
            last_day == monthrange(next_date.year, next_date.month)
        IN /\ ValidDate(next_date)
           /\ \E k \in 1..Len(dates) :
                 next_date.day = IF last_day < dates[k] THEN last_day ELSE dates[k]
           /\ (Len(dates) = 1 /\ last_day >= dates[1]) => next_date.day = dates[1]
           /\ (Len(dates) = 1 /\ last_day < dates[1]) => next_date.day = last_day
           /\ (dates = <<31>> /\ from_date.month = 2) =>
                 next_date = CalDate(from_date.year, 2,
                                     IF isleap(from_date.year) THEN 29 ELSE 28)

\* monthly:31 was computed from 10 February of a leap year and gave the
\* 29th of that February
C29_Witness ==
    /\ occurrences.dates = <<31>>
    /\ occurrences.n = 1
    /\ occurrences.current_date = CalDate(2024, 2, 10)
    /\ occurrences.next_date = CalDate(2024, 2, 29)

\* date a lies before date b in the calendar
DateBefore(a, b) ==
    \/ a.year < b.year
    \/ a.year = b.year /\ a.month < b.month
    \/ a.year = b.year /\ a.month = b.month /\ a.day < b.day

\* C32: the date computed for a monthly pattern is strictly later than the
\* date it was computed from, so that the dates of get_all_occurrences are
\* strictly increasing; this includes days of the month that exceed the
\* length of the current month (monthly:31 from 28 February or 30 April).
C32_NextIsStrictlyLater ==
    occurrences.n > 0 =>
        DateBefore(occurrences.current_date, occurrences.next_date)

----------------------------------------------------------------------------
\* The reminder heap as heapq lays it out (reminder/priority_queue.py).
\* _queue is a list; position p of the list is index p + 1 of the sequence.

\* Bounds of the heap model
MaxHeapLen    == 4     \* items in the heap
MaxTriggerAt  == 3     \* trigger times 1..MaxTriggerAt of the items

HeapItems ==
    {ReminderItem(t, task_id, "u1", "due_date_reminder") :
        t \in 1..MaxTriggerAt, task_id \in RemTaskIds}

\* ReminderItem.__lt__ of @dataclass(order=True): trigger_at is the only
\* field compared
ItemLess(a, b) == a.trigger_at < b.trigger_at

\* heapq._siftdown(heap, startpos, pos), newitem = heap[pos]
RECURSIVE heapq_siftdown(_, _, _, _)
heapq_siftdown(heap, startpos, pos, newitem) ==
    LET parentpos == (pos - 1) \div 2
    IN IF pos > startpos /\ ItemLess(newitem, heap[parentpos + 1])
       THEN heapq_siftdown([heap EXCEPT ![pos + 1] = heap[parentpos + 1]],
                           startpos, parentpos, newitem)
       ELSE [heap EXCEPT ![pos + 1] = newitem]

\* heapq._siftup(heap, pos): the smaller child moves up until a leaf is
\* reached, then newitem is sifted down from there
RECURSIVE heapq_siftup(_, _, _, _)
heapq_siftup(heap, startpos, pos, newitem) ==
    LET childpos == 2 * pos + 1
        rightpos == childpos + 1
        smaller  == IF rightpos < Len(heap)
                       /\ ~ItemLess(heap[childpos + 1], heap[rightpos + 1])
                    THEN rightpos ELSE childpos
    IN IF childpos < Len(heap)
       THEN heapq_siftup([heap EXCEPT ![pos + 1] = heap[smaller + 1]],
                         startpos, smaller, newitem)
       ELSE heapq_siftdown([heap EXCEPT ![pos + 1] = newitem],
                           startpos, pos, newitem)

\* heapq.heappush: append, sift down from the last position
heapq_heappush(heap, item) ==
    heapq_siftdown(Append(heap, item), 0, Len(heap), item)

\* heapq.heappop of a non-empty heap: the list after the pop
heapq_heappop(heap) ==
    LET lastelt == heap[Len(heap)]
        rest == SubSeq(heap, 1, Len(heap) - 1)
    IN IF rest = <<>> THEN rest
       ELSE heapq_siftup([rest EXCEPT ![1] = lastelt], 0, 0, lastelt)

\* heapq.heapify: for i in reversed(range(n // 2)): _siftup(x, i)
RECURSIVE heapq_heapify_from(_, _)
heapq_heapify_from(x, i) ==
    IF i < 0 THEN x
    ELSE heapq_heapify_from(heapq_siftup(x, i, i, x[i + 1]), i - 1)

heapq_heapify(x) == heapq_heapify_from(x, (Len(x) \div 2) - 1)

\* remove() without its heapify
remove_unordered(q, task_id) ==
    LET Keep(r) == r.task_id # task_id IN SelectSeq(q, Keep)

\* ReminderPriorityQueue.remove: the list without the items of the task,
\* made a heap again
remove_heapified(q, task_id) ==
    LET Keep(r) == r.task_id # task_id IN heapq_heapify(SelectSeq(q, Keep))

\* the method called, its argument (an item or a task_id), its result and
\* the _queue it found
Called(op, arg, ret, before) ==
    <<[op |-> op, arg |-> arg, ret |-> ret, before |-> before]>>

\* ReminderPriorityQueue.add
ReminderPriorityQueue_add(reminder) ==
    /\ Len(pq.queue) < MaxHeapLen
    /\ pq' = [queue |-> heapq_heappush(pq.queue, reminder),
              last |-> Called("add", reminder, NoItem, pq.queue)]
    /\ UNCHANGED notHeap

\* ReminderPriorityQueue.peek: None (NoItem) for an empty queue, else
\* self._queue[0]
ReminderPriorityQueue_peek ==
    /\ pq' = [queue |-> pq.queue,
              last |-> Called("peek", NoItem,
                              IF pq.queue = <<>> THEN NoItem ELSE pq.queue[1],
                              pq.queue)]
    /\ UNCHANGED notHeap

\* ReminderPriorityQueue.pop: None for an empty queue, else heapq.heappop
ReminderPriorityQueue_pop ==
    /\ pq' = IF pq.queue = <<>>
             THEN [queue |-> pq.queue,
                   last |-> Called("pop", NoItem, NoItem, pq.queue)]
             ELSE [queue |-> heapq_heappop(pq.queue),
                   last |-> Called("pop", NoItem, pq.queue[1], pq.queue)]
    /\ UNCHANGED notHeap

\* ReminderPriorityQueue.remove: returns removed > 0
ReminderPriorityQueue_remove(task_id) ==
    /\ LET after == remove_heapified(pq.queue, task_id)
       IN pq' = [queue |-> after,
                 last |-> Called("remove", task_id,
                                 Len(pq.queue) - Len(after) > 0, pq.queue)]
    /\ UNCHANGED notHeap

InitHeap == pq = [queue |-> <<>>, last |-> <<>>]

NextHeap ==
    \/ \E reminder \in HeapItems : ReminderPriorityQueue_add(reminder)
    \/ ReminderPriorityQueue_peek
    \/ ReminderPriorityQueue_pop
    \/ \E task_id \in RemTaskIds : ReminderPriorityQueue_remove(task_id)

\* Claims about the heap

ItemCount(q, r) == Cardinality({i \in 1..Len(q) : q[i] = r})

LeastTrigger(q, r) ==
    /\ \E i \in 1..Len(q) : q[i] = r
    /\ \A i \in 1..Len(q) : r.trigger_at <= q[i].trigger_at

\* C38: after any sequence of add, pop and remove, peek and pop return an
\* item whose trigger_at is the least in the heap (pop takes out that one
\* item and nothing else); remove(task_id) takes out exactly the items of
\* the task, keeps every other item and returns True exactly when it took
\* out at least one.
C38_HeapMinAndRemove ==
    /\ pq.queue # <<>> => LeastTrigger(pq.queue, pq.queue[1])
    /\ pq.last # <<>> =>
       LET last == pq.last[1]
       IN /\ (last.op \in {"peek", "pop"} /\ last.before # <<>>) =>
                LeastTrigger(last.before, last.ret)
          /\ (last.op \in {"peek", "pop"} /\ last.before = <<>>) =>
                last.ret = NoItem /\ pq.queue = <<>>
          /\ last.op = "peek" => pq.queue = last.before
          /\ (last.op = "pop" /\ last.before # <<>>) =>
                \A r \in HeapItems :
                   ItemCount(pq.queue, r) =
                      ItemCount(last.before, r) - (IF r = last.ret THEN 1 ELSE 0)
          /\ last.op = "remove" =>
                /\ \A r \in HeapItems :
                      ItemCount(pq.queue, r) =
                         IF r.task_id = last.arg THEN 0
                         ELSE ItemCount(last.before, r)
                /\ last.ret = (\E i \in 1..Len(last.before) :
                                  last.before[i].task_id = last.arg)

\* remove("t1") found the item of t1 at the top and two items of t2 below
\* it, the later one first; the earlier one is at the top afterwards
C38_Witness ==
    /\ pq.last # <<>>
    /\ pq.last[1].op = "remove" /\ pq.last[1].arg = "t1"
    /\ pq.last[1].ret = TRUE
    /\ Len(pq.last[1].before) = 3
    /\ pq.last[1].before[1].task_id = "t1"
    /\ pq.last[1].before[2].trigger_at > pq.last[1].before[3].trigger_at
    /\ Len(pq.queue) = 2
    /\ pq.queue[1] = pq.last[1].before[3]

----------------------------------------------------------------------------
\* Background loops and shutdown (reminder/scheduler.py,
\* audit_logger/storage.py, notification/sse_handler.py and the lifespan of
\* each service)
\*
\* Each loop is an asyncio task; its position is the await it is suspended
\* at: the sleep of its interval ("sleep"), an await inside its tick body
\* ("body"), or none because the coroutine has returned ("done").  The
\* `while` test and the except handlers have no await: they belong to the
\* step that ends the sleep or the body.

LoopNames ==
    {"reminder_scheduler_loop", "persistence_loop", "flush_loop",
     "heartbeat_loop", "cleanup_stale_connections"}

Services == {"reminder", "audit_logger", "notification"}

ServiceOf(l) ==
    IF l \in {"reminder_scheduler_loop", "persistence_loop"} THEN "reminder"
    ELSE IF l = "flush_loop" THEN "audit_logger"
    ELSE "notification"

LoopsOf(svc) == {l \in LoopNames : ServiceOf(l) = svc}

\* the flag a loop tests in its `while`: _scheduler_running (reminder),
\* self._running (audit); the loops of the notifier are `while True`
Running(l) ==
    IF ServiceOf(l) = "notification" THEN TRUE
    ELSE loops.stop[ServiceOf(l)] = "up"

\* task.cancel() has been called on the loop by its stop operation, which
\* is awaiting the task: CancelledError is what the loop's current await
\* raises, whatever that await was waiting for
CancelPending(l) ==
    /\ ServiceOf(l) # "reminder"
    /\ loops.stop[ServiceOf(l)] = l
    /\ loops.pc[l] # "done"

\* where the loop is after its sleep: reminder_scheduler_loop sleeps at the
\* end of a pass and tests the flag next; the others sleep first, inside
\* the try, and go on into the body
AfterSleep(l) ==
    IF l = "reminder_scheduler_loop"
    THEN IF Running(l) THEN "body" ELSE "done"
    ELSE "body"

\* where the loop is after a body that returned: reminder_scheduler_loop
\* sleeps; the others are at their `while` test
AfterBody(l) ==
    IF l = "reminder_scheduler_loop" THEN "sleep"
    ELSE IF Running(l) THEN "sleep" ELSE "done"

\* a loop without `except Exception`: the exception ends the task
exception_ends_loop(l) == "done"

\* `except Exception as e: logger.error(...)`: the handler logs and the
\* loop goes on where a body that returned goes on
except_Exception(l) == AfterBody(l)

sleep_returns(l) ==
    /\ l \in DOMAIN loops.pc
    /\ loops.pc[l] = "sleep"
    /\ ~CancelPending(l)
    /\ loops' = [loops EXCEPT !.pc[l] = AfterSleep(l)]
    /\ UNCHANGED notLoops

\* the tick body returns, or raises an Exception
body_ends(l, raises) ==
    /\ l \in DOMAIN loops.pc
    /\ loops.pc[l] = "body"
    /\ ~CancelPending(l)
    /\ loops' = [loops EXCEPT
                   !.pc[l] = IF raises THEN except_Exception(l) ELSE AfterBody(l),
                   !.raised = IF raises THEN @ \cup {l} ELSE @ \ {l}]
    /\ UNCHANGED notLoops

\* `except asyncio.CancelledError: break` of flush_loop, heartbeat_loop and
\* cleanup_stale_connections; the `except Exception` handlers on the way
\* (flush, send_heartbeat, unregister_connection) do not catch it
CancelledError_caught(l) ==
    /\ l \in DOMAIN loops.pc
    /\ CancelPending(l)
    /\ loops' = [loops EXCEPT !.pc[l] = "done"]
    /\ UNCHANGED notLoops

\* The stop operation of a service, called by its lifespan after the yield,
\* up to its first await.  stop_reminder_scheduler sets
\* _scheduler_running = False and awaits the scheduler task;
\* stop_background_task (audit) sets _running = False, cancels the flush
\* task and awaits it; stop_background_tasks (notifier) cancels the
\* heartbeat task and awaits it.
FirstAwaited(svc) ==
    IF svc = "reminder" THEN "reminder_scheduler_loop"
    ELSE IF svc = "audit_logger" THEN "flush_loop"
    ELSE "heartbeat_loop"

stop_requested(svc) ==
    /\ svc \in DOMAIN loops.stop
    /\ loops.stop[svc] = "up"
    /\ loops' = [loops EXCEPT !.stop[svc] = FirstAwaited(svc)]
    /\ UNCHANGED notLoops

\* `await task` returns when the task is done, and the stop operation goes
\* on: to the persistence task (reminder), to cancelling and awaiting the
\* cleanup task (notifier), to the flush() of what remains in the buffer
\* (audit), or to its return.
AfterAwait(l, remaining) ==
    IF l = "reminder_scheduler_loop" THEN "persistence_loop"
    ELSE IF l = "heartbeat_loop" THEN "cleanup_stale_connections"
    ELSE IF l = "flush_loop" /\ remaining THEN "flush"
    ELSE "returned"

task_awaited(svc, remaining) ==
    /\ svc \in DOMAIN loops.stop
    /\ loops.stop[svc] \in LoopsOf(svc)
    /\ loops.pc[loops.stop[svc]] = "done"
    /\ loops' = [loops EXCEPT !.stop[svc] = AfterAwait(loops.stop[svc], remaining)]
    /\ UNCHANGED notLoops

\* the flush() at the end of stop_background_task (audit) returns
last_flush_returns ==
    /\ "audit_logger" \in DOMAIN loops.stop
    /\ loops.stop["audit_logger"] = "flush"
    /\ loops' = [loops EXCEPT !.stop["audit_logger"] = "returned"]
    /\ UNCHANGED notLoops

\* no task has been created: the state before the lifespan starts them
IdleLoops ==
    loops = [pc |-> <<>>, raised |-> {}, stop |-> <<>>]

\* One of the services after its startup: reminder_scheduler_loop is in
\* its first process_due_reminders, the other loops in their first sleep.
\* The services are separate processes that share no task and no flag.
InitLoops ==
    \E started \in Services :
        loops = [pc |-> [l \in LoopsOf(started) |->
                           IF l = "reminder_scheduler_loop" THEN "body"
                           ELSE "sleep"],
                 raised |-> {},
                 stop |-> [svc \in {started} |-> "up"]]

LoopStep(l) ==
    \/ sleep_returns(l)
    \/ \E raises \in BOOLEAN : body_ends(l, raises)
    \/ CancelledError_caught(l)

StopStep(svc) ==
    \/ \E remaining \in BOOLEAN : task_awaited(svc, remaining)
    \/ last_flush_returns

NextShutdown ==
    \/ \E l \in LoopNames : sleep_returns(l)
    \/ \E l \in LoopNames, raises \in BOOLEAN : body_ends(l, raises)
    \/ \E l \in LoopNames : CancelledError_caught(l)
    \/ \E svc \in Services : stop_requested(svc)
    \/ \E svc \in Services, remaining \in BOOLEAN : task_awaited(svc, remaining)
    \/ last_flush_returns

\* the position of a loop and of a stop operation ("none": not started)
LoopAt(l) == IF l \in DOMAIN loops.pc THEN loops.pc[l] ELSE "none"

StopAt(svc) == IF svc \in DOMAIN loops.stop THEN loops.stop[svc] ELSE "none"

\* C31: once the stop operation of a service has been called, each of its
\* loops exits and the stop operation returns; before that no loop ends, in
\* particular not when its tick body raises, and after a tick that raised
\* the loop comes to its body again (or shutdown is requested first).
C31_LoopsExitOnShutdown ==
    /\ \A svc \in Services :
          (StopAt(svc) \notin {"none", "up"}) ~>
             (StopAt(svc) = "returned"
              /\ \A l \in LoopsOf(svc) : LoopAt(l) = "done")
    /\ [][\A l \in DOMAIN loops.pc :
             (loops.stop[ServiceOf(l)] = "up" /\ loops.pc[l] # "done")
                => loops'.pc[l] # "done"]_vars
    /\ \A l \in LoopNames :
          (l \in loops.raised /\ LoopAt(l) # "body") ~>
             (LoopAt(l) = "body" \/ StopAt(ServiceOf(l)) # "up")

\* stop_reminder_scheduler has returned with both loops done; the last
\* tick of each loop had raised
C31_Witness ==
    /\ DOMAIN loops.stop = {"reminder"}
    /\ loops.stop["reminder"] = "returned"
    /\ \A l \in LoopsOf("reminder") : loops.pc[l] = "done"
    /\ loops.raised = LoopsOf("reminder")

----------------------------------------------------------------------------
Init ==
    /\ InitAudit /\ InitReminder /\ InitNotifier /\ InitGenerator /\ InitApi
    /\ InitCalendar /\ InitHeap /\ InitFiring /\ InitLoops

Next ==
    \/ NextAudit \/ NextReminder \/ NextNotifier \/ NextGenerator \/ NextApi
    \/ NextCalendar \/ NextHeap \/ NextFiring \/ NextShutdown

Spec == Init /\ [][Next]_vars

\* One worker at a time: the workers share no state, so each is checked
\* alone, the others staying in one initial state of theirs.
IdleNotifier ==
    /\ InitNotifier
    /\ ~hashable
    /\ notifBudget = CHOOSE b \in NotifBudgets : TRUE

IdleApi ==
    /\ InitApi
    /\ apiConf = [DAPR_ENABLED |-> TRUE, sdk |-> TRUE]

InitIdleNotifier ==
    /\ InitAudit /\ InitReminder /\ IdleNotifier /\ InitGenerator /\ IdleApi
    /\ IdleCalendar /\ InitHeap /\ InitFiring /\ IdleLoops

InitIdleApi ==
    /\ InitAudit /\ InitReminder /\ InitNotifier /\ InitGenerator /\ IdleApi
    /\ IdleCalendar /\ InitHeap /\ InitFiring /\ IdleLoops

InitIdleWorkers ==
    /\ InitAudit /\ InitReminder /\ IdleNotifier /\ InitGenerator /\ InitApi
    /\ IdleCalendar /\ InitHeap /\ InitFiring /\ IdleLoops

SpecAudit == InitIdleNotifier /\ [][NextAudit]_vars

\* The reminder engine alone, the other services not deployed: their
\* tables, registries and queues are empty, their clocks at 0, their
\* processes down, and their histories record nothing.
InitReminderAlone ==
    /\ InitReminder /\ InitHeap /\ IdleLoops
    /\ buffer = <<>> /\ flight = <<>> /\ task_events = {} /\ auditNow = 0
    /\ delivered = <<>> /\ inserted = <<>> /\ conflicted = FALSE
    /\ auditPc = "down" /\ dbFailed = FALSE /\ auditReply = <<>>
    /\ connections = <<>> /\ conn = <<>> /\ notifNow = 0 /\ hashable = FALSE
    /\ lastOpen = <<>> /\ sentLog = <<>> /\ timers = <<>> /\ lastUnreg = <<>>
    /\ notifBudget = <<>>
    /\ recStarted = FALSE /\ recRuns = <<>> /\ recToday = 0 /\ instances = {}
    /\ recRequests = <<>> /\ recReport = <<>> /\ recBudget = 0
    /\ tasks = <<>> /\ apiConf = <<>> /\ apiLast = <<>>
    /\ occurrences = <<>> /\ firing = <<>>

SpecReminder == InitReminderAlone /\ [][NextReminder]_vars

SpecEventConsumer == InitIdleNotifier /\ [][NextEventConsumer]_vars

SpecNotifier == InitIdleApi /\ [][NextNotifier]_vars

\* The notifier on the clock.  Both loops are tasks of the event loop that
\* run for as long as the service is up, and time passes: each of them is
\* taken when it stays enabled.
InitTimedNotifier ==
    /\ InitAudit /\ InitReminder /\ TimedNotifier /\ InitGenerator /\ IdleApi
    /\ IdleCalendar /\ InitHeap /\ InitFiring /\ IdleLoops

SpecNotifierTimed ==
    /\ InitTimedNotifier
    /\ [][NextNotifierTimed]_vars
    /\ WF_vars(heartbeat_loop)
    /\ WF_vars(cleanup_stale_connections)
    /\ WF_vars(NotifClockTick(30 * TicksPerSecond))

SpecGenerator == InitIdleNotifier /\ [][NextGenerator]_vars

SpecApi == InitIdleWorkers /\ [][NextApi]_vars

InitCalendarAlone ==
    /\ InitAudit /\ InitReminder /\ IdleNotifier /\ InitGenerator /\ IdleApi
    /\ InitCalendar /\ InitHeap /\ InitFiring /\ IdleLoops

SpecCalendar == InitCalendarAlone /\ [][NextCalendar]_vars
InitHeapAlone ==
    /\ InitAudit /\ InitReminder /\ IdleNotifier /\ InitGenerator /\ IdleApi
    /\ IdleCalendar /\ InitHeap /\ InitFiring /\ IdleLoops

InitLoopsAlone ==
    /\ InitAudit /\ InitReminder /\ IdleNotifier /\ InitGenerator /\ IdleApi
    /\ IdleCalendar /\ InitHeap /\ InitFiring /\ InitLoops

SpecHeap == InitHeapAlone /\ [][NextHeap]_vars

SpecFiring == InitIdleNotifier /\ [][NextFiring]_vars
InitDelivery ==
    /\ InitAudit /\ InitReminder /\ DeliveryNotifier /\ InitGenerator /\ IdleApi
    /\ IdleCalendar /\ InitHeap /\ InitFiring /\ IdleLoops

SpecDelivery == InitDelivery /\ [][NextNotifier]_vars

\* The loops are tasks of the event loop, which runs every task that is
\* ready: a sleep ends, a tick body returns or raises, a cancelled await
\* raises CancelledError, and a stop operation goes on when the task it
\* awaits is done.  Whether and when a stop is requested is left open.
SpecShutdown ==
    /\ InitLoopsAlone
    /\ [][NextShutdown]_vars
    /\ \A l \in LoopNames : WF_vars(LoopStep(l))
    /\ \A svc \in Services : WF_vars(StopStep(svc))

\* The flush loop is a task of the event loop that runs for as long as the
\* service is up, and the database answers every flush(), with a commit or
\* with an error.
SpecFlush ==
    /\ InitIdleNotifier
    /\ [][NextFlush]_vars
    /\ WF_vars(flush_loop_tick)
    /\ WF_vars(\E i \in 1..MaxInFlight : FlushCommit(i) \/ FlushFail(i))
====
